---- MODULE Spec2Model ----
(***************************************************************************)
(* A model of psdatahelper's API client (src/psdatahelper/api.py).         *)
(*                                                                         *)
(* One action per public method of class API.  An action is the whole      *)
(* call: every request the method sends, every line it logs and the value  *)
(* it returns.  The server is the environment: the response to each        *)
(* request is an input of the action.                                      *)
(*                                                                         *)
(* Strings that are formatted and then sorted (the access-request          *)
(* directives) are sequences of character codes, so that list.sort() is    *)
(* the lexicographic order Python uses.  Other strings are TLA+ strings.   *)
(***************************************************************************)
EXTENDS Integers, Sequences, FiniteSets, TLC

VARIABLES
    api_connected,  \* API._api_connected
    session,        \* API.session: "unset" (no such attribute), "open" or "closed"
    pq_prefix,      \* API._pq_prefix
    has_errors,     \* Log.has_errors of the API's log
    pc,             \* "idle": between calls; "returned": a call has just ended;
                    \* "discarded": the API object is gone
    op,             \* the method of the call that has just ended
    args,           \* its arguments
    requests,       \* the HTTP requests it sent, in order
    log,            \* the lines it logged, in order
    result,         \* what it returned
    raised,         \* the exception that left it, or "none"
    locals,         \* the locals of a bulk method when it ended
    credential,     \* the Credential object: API._credential, or the one under construction
    keyring,        \* the secret store: (server_name, plugin) -> stored text
    trace,          \* what the call did to the secret store, the terminal, the sessions and the mail server
    email_config    \* Log._smtp_server and Log._email_header

vars == <<api_connected, session, pq_prefix, has_errors, pc, op, args,
          requests, log, result, raised, locals, credential, keyring, trace,
          email_config>>

----------------------------------------------------------------------------
(* Bounds of the model.                                                    *)

\* Rows of an input DataFrame.
MaxRows == 2

\* Entries of the "errors" list of a 403 body.
MaxErrors == 4

\* Records of a 200 body.
MaxRecords == 2

----------------------------------------------------------------------------
(* Small helpers.                                                          *)

Range(s) == {s[i] : i \in 1..Len(s)}

SeqsUpTo(S, n) == UNION {[1..k -> S] : k \in 0..n}

\* s < t in the order of Python's str comparison (code point by code point,
\* a proper prefix first).
RECURSIVE LexLessFrom(_, _, _)
LexLessFrom(s, t, i) ==
    IF i > Len(t) THEN FALSE
    ELSE IF i > Len(s) THEN TRUE
    ELSE IF s[i] # t[i] THEN s[i] < t[i]
    ELSE LexLessFrom(s, t, i + 1)

LexLess(s, t) == LexLessFrom(s, t, 1)

LexLeq(s, t) == s = t \/ LexLess(s, t)

\* Insert x into the sorted list l after every element that is <= x.
RECURSIVE InsertSorted(_, _)
InsertSorted(x, l) ==
    IF l = <<>> THEN <<x>>
    ELSE IF LexLess(x, Head(l)) THEN <<x>> \o l
    ELSE <<Head(l)>> \o InsertSorted(x, Tail(l))

----------------------------------------------------------------------------
(* The values the environment supplies.                                    *)

\* pandas' missing value (None / NaN) in a cell.
Null == "<null>"

\* The table the calls are about.
TableNames == {"U_TBL"}

\* The columns of the caller's DataFrame: none, a data column only, the
\* record id column and a data column.
ColumnLayouts == {<<>>, <<"name">>, <<"id", "name">>}

\* The rows a DataFrame with the given columns can hold: a present value, a
\* missing value and a present empty string.
RowsOf(cols) ==
    IF cols = <<"id", "name">>
    THEN {[id |-> "1", name |-> "a"], [id |-> "1", name |-> Null],
          [id |-> "2", name |-> ""]}
    ELSE IF cols = <<"name">>
    THEN {[name |-> "a"], [name |-> Null]}
    ELSE {<<>>}

DataFrames ==
    UNION {{[cols |-> cols, rows |-> rs] : rs \in SeqsUpTo(RowsOf(cols), MaxRows)}
           : cols \in ColumnLayouts}

\* pd.DataFrame()
EmptyDataFrame == [cols |-> <<>>, rows |-> <<>>]

\* len(df) == 0 in place of df.empty.
HasNoRows(df) == Len(df.rows) = 0

\* DataFrame.empty: true when either axis has length 0.
IsEmpty(df) == Len(df.rows) = 0 \/ Len(df.cols) = 0

\* An entry of the "errors" list of a 403 body: a JSON object that names a
\* table ("S" or "T") and a field ("a" or "b") as character codes, or one
\* that lacks "field".
ErrorEntries ==
    {[resource |-> <<84>>, field |-> <<98>>], [resource |-> <<84>>, field |-> <<97>>],
     [resource |-> <<83>>, field |-> <<97>>], [resource |-> <<84>>]}

\* A response body.  is_json: response.json() succeeds; json: the object it
\* returns, a function from the keys present to their values; raw: the text
\* of a body that is not JSON.  response.text is the body itself.
TextBody(t) == [is_json |-> FALSE, json |-> <<>>, raw |-> t]
JsonBody(obj) == [is_json |-> TRUE, json |-> obj, raw |-> ""]

Response(code, body) == [status_code |-> code, body |-> body]

\* The status codes _response_log_status_code names, 200, 204 and 403.
StatusCodes == {200, 204, 400, 401, 403, 404, 405, 409, 415, 500, 509}

\* Bodies of a 403: not JSON, JSON without "errors", and every "errors" list
\* of up to MaxErrors entries.
ForbiddenBodies ==
    {TextBody("Forbidden"), JsonBody([message |-> "Forbidden"])}
        \cup {JsonBody([errors |-> es]) : es \in SeqsUpTo(ErrorEntries, MaxErrors)}

\* A JSON object whose key order is read (a record of a result set) is the
\* sequence of its <<key, value>> pairs.
Keys(d) == [i \in 1..Len(d) |-> d[i][1]]
HasKey(d, k) == \E i \in 1..Len(d) : d[i][1] = k
Get(d, k) == d[CHOOSE i \in 1..Len(d) : d[i][1] = k][2]

\* The records of a 200 body: with a nested "tables" object (with and
\* without "id", for one or two tables) and flat.
RecordObjects ==
    {<< <<"tables", << <<"S", << <<"a", "1">> >> >> >> >> >>,
     << <<"tables", << <<"S", << <<"a", "2">>, <<"b", "3">> >> >>,
                       <<"T", << <<"c", "4">> >> >> >> >> >>,
     << <<"tables", << <<"T", << <<"c", "5">> >> >> >> >> >>,
     << <<"id", "7">>, <<"tables", << <<"U_TBL", << <<"name", "a">> >> >> >> >> >>,
     << <<"id", "8">>, <<"tables", << <<"U_TBL", << <<"name", "b">>, <<"x", "9">> >> >> >> >> >>,
     << <<"a", "1">> >>,
     << <<"b", "2">>, <<"a", "3">> >>}

\* Bodies of a 200: no "record" key, a "record" list of up to MaxRecords
\* records, a count, the "tables" object of a single record.
OkBodies ==
    {JsonBody(<<>>), JsonBody([count |-> 3]),
     JsonBody([tables |-> [t \in {"U_TBL"} |-> << <<"name", "a">> >>]]),
     JsonBody([tables |-> [t \in {"OTHER"} |-> << <<"name", "a">> >>]])}
        \cup {JsonBody([record |-> rs]) : rs \in SeqsUpTo(RecordObjects, MaxRecords)}

\* A 403 that names two fields, out of order.
TwoFieldsForbidden ==
    Response(403, JsonBody([errors |->
        <<[resource |-> <<84>>, field |-> <<98>>],
          [resource |-> <<84>>, field |-> <<97>>]>>]))

\* What the server can answer to the request of a read of a table: every
\* status code without a JSON body, an error with one, a 403 and every 200.
ReadResponses ==
    {Response(c, TextBody("")) : c \in StatusCodes \ {403}}
        \cup {Response(c, JsonBody([message |-> "error"])) : c \in {400, 404}}
        \cup {TwoFieldsForbidden, Response(403, TextBody("Forbidden"))}
        \cup {Response(200, b) : b \in OkBodies}

\* What the server can answer to pq_run and table_delete_record: the same,
\* and a 403 with every body.
Responses ==
    ReadResponses \cup {Response(403, b) : b \in ForbiddenBodies}

\* What the server answers to the request of one row of a bulk call: every
\* status class, a 403 that names two fields, a 403 that names none and a
\* 403 whose body is not JSON.
BulkResponses ==
    {Response(c, TextBody("")) : c \in {200, 204, 400, 404, 500}}
        \cup {TwoFieldsForbidden, Response(403, JsonBody([errors |-> <<>>])),
              Response(403, TextBody("Forbidden"))}

\* The responses to the requests of a bulk call: one per row when the call
\* reaches its loop and the rows have the id column the requests are
\* addressed with, none otherwise.
BulkAnswers(connected, records, id_columns) ==
    [1..(IF connected /\ ~IsEmpty(records) /\ id_columns \subseteq Range(records.cols)
         THEN Len(records.rows) ELSE 0) -> BulkResponses]

----------------------------------------------------------------------------
(* Logging (src/psdatahelper/log.py).                                      *)

\* A line written by Log.debug / Log.error.  detail carries the part of the
\* message the properties read (the directives of an access-request line).
DebugLine(msg) == [level |-> "debug", msg |-> msg, detail |-> <<>>]
ErrorLine(msg) == [level |-> "error", msg |-> msg, detail |-> <<>>]
ErrorLineWith(msg, detail) == [level |-> "error", msg |-> msg, detail |-> detail]

\* self._smtp_server = '' and the three empty entries of self._email_header
NoEmailConfig ==
    [smtp_server |-> "", sender_address |-> "", sender_name |-> "", recipients |-> ""]

\* Log.error sets has_errors; Log.debug leaves it alone.
HasErrorLine(lines) == \E i \in 1..Len(lines) : lines[i].level = "error"

----------------------------------------------------------------------------
(* API._access_requests_parse                                              *)

ViewOnly == <<86, 105, 101, 119, 79, 110, 108, 121>>
FullAccess == <<70, 117, 108, 108, 65, 99, 99, 101, 115, 115>>

\* f'\n<field table="{error["resource"]}" field="{error["field"]}" access="{access_level}"/>'
FormatAccessRequest(error, access_level) ==
    <<10, 60, 102, 105, 101, 108, 100, 32, 116, 97, 98, 108, 101, 61, 34>>
        \o error["resource"]
        \o <<34, 32, 102, 105, 101, 108, 100, 61, 34>>
        \o error["field"]
        \o <<34, 32, 97, 99, 99, 101, 115, 115, 61, 34>>
        \o access_level
        \o <<34, 47, 62>>

\* The for loop over response.json()['errors']: the requests appended before
\* the loop ends or an entry without "resource" or "field" raises KeyError.
RECURSIVE AppendAccessRequests(_, _, _)
AppendAccessRequests(errors, access_level, acc) ==
    IF errors = <<>> THEN [list |-> acc, raised |-> FALSE]
    ELSE IF ~({"resource", "field"} \subseteq DOMAIN Head(errors))
         THEN [list |-> acc, raised |-> TRUE]
         ELSE AppendAccessRequests(Tail(errors), access_level,
                  Append(acc, FormatAccessRequest(Head(errors), access_level)))

\* list.sort()
RECURSIVE SortList(_)
SortList(l) ==
    IF l = <<>> THEN <<>> ELSE InsertSorted(l[Len(l)], SortList(SubSeq(l, 1, Len(l) - 1)))

\* Returns the list of access requests and the lines logged.
access_requests_parse(response, read_only) ==
    IF response.status_code = 403
    THEN LET access_level == IF read_only THEN ViewOnly ELSE FullAccess
             parsed ==
                 IF ~response.body.is_json \/ "errors" \notin DOMAIN response.body.json
                 THEN [list |-> <<>>, raised |-> TRUE]
                 ELSE AppendAccessRequests(response.body.json["errors"], access_level, <<>>)
         IN  [access_requests |-> SortList(parsed.list),
              log |-> IF parsed.raised
                      THEN <<ErrorLine("Error parsing access requests")>>
                      ELSE <<>>]
    ELSE [access_requests |-> <<>>,
          log |-> <<ErrorLine("Response status code is not 403")>>]

----------------------------------------------------------------------------
(* API._response_log_status_code and API._request                          *)

LoggedStatusCodes == {400, 401, 404, 405, 409, 415, 500, 509}

response_log_status_code(resource, method, response) ==
    IF response.status_code \in LoggedStatusCodes
    THEN <<ErrorLineWith("status", response.status_code)>>
    ELSE <<>>

\* The call session.request(method, url, **kwargs) together with the flags
\* _request was given.
Request(method, resource, read_only, suppress_log, data) ==
    [method |-> method, resource |-> resource, read_only |-> read_only,
     suppress_log |-> suppress_log, data |-> data]

\* No request body (no data= argument).
NoData == <<>>

\* _request, given the response the server sends.  Returns the request sent,
\* the response, the access requests attached to it and the lines logged.
request(method, resource, read_only, suppress_log, data, response) ==
    LET parse == access_requests_parse(response, read_only)
        lines ==
            IF response.status_code = 403
            THEN parse.log \o
                 (IF parse.access_requests # <<>> /\ ~suppress_log
                  THEN <<ErrorLineWith("access requests", parse.access_requests)>>
                  ELSE <<>>)
            ELSE IF response.status_code # 200 /\ ~suppress_log
                 THEN response_log_status_code(resource, method, response)
                 ELSE <<>>
    IN  [request |-> Request(method, resource, read_only, suppress_log, data),
         response |-> response,
         access_requests |-> IF response.status_code = 403
                             THEN parse.access_requests ELSE <<>>,
         log |-> lines]

----------------------------------------------------------------------------
(* What a call leaves behind.                                              *)

DataFrameResult(df) == [type |-> "DataFrame", value |-> df]
BoolResult(b) == [type |-> "bool", value |-> b]
IntResult(n) == [type |-> "int", value |-> n]
NoneResult == [type |-> "NoneType", value |-> <<>>]

\* Nothing returned: no call yet, or the call raised.
NoResult == [type |-> "-", value |-> <<>>]

NoLocals ==
    [access_requests_needed |-> FALSE, suppress_log |-> FALSE,
     errors |-> <<>>, failed |-> <<>>, not_found |-> <<>>]

Outcome(reqs, lines, res, exc, loc) ==
    [requests |-> reqs, log |-> lines, result |-> res, raised |-> exc, locals |-> loc]

\* f"/ws/schema/table/{table_name}" and f"/ws/schema/table/{table_name}/{record_id}"
TableResource(table_name) == "/ws/schema/table/" \o table_name
RecordResource(table_name, record_id) == "/ws/schema/table/" \o table_name \o "/" \o record_id

\* f'{{"tables":{{"{table_name}":{row_json}}}}}'
Payload(table_name, row_json) == [tables |-> [t \in {table_name} |-> row_json]]

----------------------------------------------------------------------------
(* The row functions of the bulk methods and DataFrame.apply(f, axis=1).   *)

StatusColumns == <<"response_status_code", "response_text">>

\* row['response_status_code'] = ...; row['response_text'] = ...
WithStatus(row, response) ==
    [c \in DOMAIN row \cup Range(StatusColumns) |->
        IF c = "response_status_code" THEN response.status_code
        ELSE IF c = "response_text" THEN response.body
        ELSE row[c]]

\* dropna that takes the empty string for a missing value as well.
dropna_and_blanks(row) == [c \in {d \in DOMAIN row : row[d] \notin {Null, ""}} |-> row[c]]

\* Series.dropna(): the row without its missing values.
dropna(row) == [c \in {d \in DOMAIN row : row[d] # Null} |-> row[c]]

\* Series.drop(label): the row without that label.
drop(row, label) == [c \in DOMAIN row \ {label} |-> row[c]]

\* DataFrame.fillna(''): every missing value replaced by the empty string.
fillna(df) ==
    [cols |-> df.cols,
     rows |-> [i \in 1..Len(df.rows) |->
                  [c \in DOMAIN df.rows[i] |->
                      IF df.rows[i][c] = Null THEN "" ELSE df.rows[i][c]]]]

\* The state the row functions share: the two nonlocal flags, and what has
\* been sent, logged and returned so far.
LoopStart ==
    [access_requests_needed |-> FALSE, suppress_log |-> FALSE,
     requests |-> <<>>, log |-> <<>>, rows |-> <<>>, raised |-> "none"]

\* SendForRow with the results collected in reverse order.
SendForRowPrepending(st, row, method, resource, data, response) ==
    LET r == request(method, resource, FALSE, st.suppress_log, data, response)
    IN  [access_requests_needed |->
             st.access_requests_needed \/ response.status_code = 403,
         suppress_log |-> TRUE,
         requests |-> Append(st.requests, r.request),
         log |-> st.log \o r.log,
         rows |-> <<WithStatus(row, response)>> \o st.rows,
         raised |-> "none"]

\* SendForRow without read_only=False: _request's default applies.
SendForRowReadOnly(st, row, method, resource, data, response) ==
    LET r == request(method, resource, TRUE, st.suppress_log, data, response)
    IN  [access_requests_needed |->
             st.access_requests_needed \/ response.status_code = 403,
         suppress_log |-> TRUE,
         requests |-> Append(st.requests, r.request),
         log |-> st.log \o r.log,
         rows |-> Append(st.rows, WithStatus(row, response)),
         raised |-> "none"]

\* SendForRow that raises the batch flag only for a 403 of the first row.
SendForRowFlagFirstOnly(st, row, method, resource, data, response) ==
    LET r == request(method, resource, FALSE, st.suppress_log, data, response)
    IN  [access_requests_needed |->
             st.access_requests_needed \/ (response.status_code = 403 /\ ~st.suppress_log),
         suppress_log |-> TRUE,
         requests |-> Append(st.requests, r.request),
         log |-> st.log \o r.log,
         rows |-> Append(st.rows, WithStatus(row, response)),
         raised |-> "none"]

\* The part of a row function after the request has been built.
SendForRow(st, row, method, resource, data, response) ==
    LET r == request(method, resource, FALSE, st.suppress_log, data, response)
    IN  [access_requests_needed |->
             st.access_requests_needed \/ response.status_code = 403,
         suppress_log |-> TRUE,
         requests |-> Append(st.requests, r.request),
         log |-> st.log \o r.log,
         rows |-> Append(st.rows, WithStatus(row, response)),
         raised |-> "none"]

insert_records(st, table_name, row, response) ==
    SendForRow(st, row, "post", TableResource(table_name),
               Payload(table_name, dropna(row)), response)

\* update_records with the delete-then-reinsert fallback of a failed PUT.
update_records_with_delete(st, table_name, id_column_name, row, response) ==
    LET put == SendForRow(st, row, "put", RecordResource(table_name, row[id_column_name]),
                          Payload(table_name, drop(row, id_column_name)), response)
    IN  IF response.status_code = 200 THEN put
        ELSE [put EXCEPT !.requests =
                 @ \o <<Request("delete", RecordResource(table_name, row[id_column_name]),
                                FALSE, TRUE, NoData),
                        Request("post", TableResource(table_name), FALSE, TRUE,
                                Payload(table_name, dropna(row)))>>]

update_records(st, table_name, id_column_name, row, response) ==
    SendForRow(st, row, "put", RecordResource(table_name, row[id_column_name]),
               Payload(table_name, drop(row, id_column_name)), response)

\* row[id_column_name] raises KeyError when the row has no such label.
delete_records(st, table_name, id_column_name, row, response) ==
    IF id_column_name \notin DOMAIN row
    THEN [st EXCEPT !.raised = "KeyError"]
    ELSE SendForRow(st, row, "delete", RecordResource(table_name, row[id_column_name]),
                    NoData, response)

RowFunction(kind, st, table_name, id_column_name, row, response) ==
    CASE kind = "insert" -> insert_records(st, table_name, row, response)
      [] kind = "update" -> update_records(st, table_name, id_column_name, row, response)
      [] kind = "delete" -> delete_records(st, table_name, id_column_name, row, response)

\* apply that gives up at the first row whose request fails.
RECURSIVE apply_until_failure(_, _, _, _, _, _)
apply_until_failure(kind, st, table_name, id_column_name, rows, resps) ==
    IF \/ rows = <<>>
       \/ st.raised # "none"
       \/ (st.rows # <<>> /\
              st.rows[Len(st.rows)]["response_status_code"] \notin {200, 204})
    THEN st
    ELSE apply_until_failure(kind,
             RowFunction(kind, st, table_name, id_column_name, Head(rows), Head(resps)),
             table_name, id_column_name, Tail(rows), Tail(resps))

\* records.apply(f, axis=1): f on every row in order; an exception ends it.
RECURSIVE apply(_, _, _, _, _, _)
apply(kind, st, table_name, id_column_name, rows, resps) ==
    IF rows = <<>> \/ st.raised # "none" THEN st
    ELSE apply(kind,
               RowFunction(kind, st, table_name, id_column_name, Head(rows), Head(resps)),
               table_name, id_column_name, Tail(rows), Tail(resps))

\* results.loc[results['response_status_code'] != code], as the positions of
\* the rows selected among the given positions.
RowsWhereNot(rows, positions, code) ==
    SelectSeq(positions, LAMBDA i : rows[i]["response_status_code"] # code)

RowsWhere(rows, positions, code) ==
    SelectSeq(positions, LAMBDA i : rows[i]["response_status_code"] = code)

Positions(rows) == [i \in 1..Len(rows) |-> i]

\* failed_rows that counts the rows not found among the failed ones.
failed_rows_with_not_found(rows, errors) == errors

\* errors.loc[errors['response_status_code'] != 404] and
\* errors.loc[errors['response_status_code'] == 404] of table_delete_records.
failed_rows(rows, errors) == RowsWhereNot(rows, errors, 404)
not_found_rows(rows, errors) == RowsWhere(rows, errors, 404)

----------------------------------------------------------------------------
(* The bulk methods.  resps[k] is the server's response to the k-th        *)
(* request of the call.                                                    *)

NOT_CONNECTED_MSG == "not run because the API is not connected"
EMPTY_DF_LOG_MSG == "Input DataFrame is empty. No records processed."
NO_RECORDS_LOG_MSG == "No records found."

BulkLocals(st, errors, failed, not_found) ==
    [access_requests_needed |-> st.access_requests_needed,
     suppress_log |-> st.suppress_log,
     errors |-> errors, failed |-> failed, not_found |-> not_found]

table_insert_records(table_name, records, resps) ==
    IF ~api_connected
    THEN Outcome(<<>>, <<ErrorLine(NOT_CONNECTED_MSG)>>,
                 DataFrameResult(EmptyDataFrame), "none", NoLocals)
    ELSE IF IsEmpty(records)
    THEN Outcome(<<>>, <<DebugLine(EMPTY_DF_LOG_MSG)>>,
                 DataFrameResult(EmptyDataFrame), "none", NoLocals)
    ELSE
    LET st == apply("insert", LoopStart, table_name, "", records.rows, resps)
        results == [cols |-> records.cols \o StatusColumns, rows |-> st.rows]
        errors == RowsWhereNot(results.rows, Positions(results.rows), 200)
        summary ==
            IF errors # <<>>
            THEN IF ~st.access_requests_needed
                 THEN <<ErrorLine("Errors inserting records")>>
                 ELSE <<>>
            ELSE <<DebugLine("record(s) successfully inserted")>>
    IN  Outcome(st.requests,
                <<DebugLine("Inserting records")>> \o st.log \o summary,
                DataFrameResult(results), "none",
                BulkLocals(st, errors, <<>>, <<>>))

table_update_records(table_name, id_column_name, records, resps) ==
    IF ~api_connected
    THEN Outcome(<<>>, <<ErrorLine(NOT_CONNECTED_MSG)>>,
                 DataFrameResult(EmptyDataFrame), "none", NoLocals)
    ELSE IF IsEmpty(records)
    THEN Outcome(<<>>, <<DebugLine(EMPTY_DF_LOG_MSG)>>,
                 DataFrameResult(EmptyDataFrame), "none", NoLocals)
    ELSE IF id_column_name \notin Range(records.cols)
    THEN Outcome(<<>>, <<ErrorLine("ID column not found in records. No records updated.")>>,
                 DataFrameResult(EmptyDataFrame), "none", NoLocals)
    ELSE
    LET filled == fillna(records)
        st == apply("update", LoopStart, table_name, id_column_name, filled.rows, resps)
        results == [cols |-> filled.cols \o StatusColumns, rows |-> st.rows]
        errors == RowsWhereNot(results.rows, Positions(results.rows), 200)
        summary ==
            IF errors # <<>>
            THEN IF ~st.access_requests_needed
                 THEN <<ErrorLine("Errors updating records")>>
                 ELSE <<>>
            ELSE <<DebugLine("records successfully updated")>>
    IN  Outcome(st.requests,
                <<DebugLine("Updating records")>> \o st.log \o summary,
                DataFrameResult(results), "none",
                BulkLocals(st, errors, <<>>, <<>>))

table_delete_records(table_name, id_column_name, records, resps) ==
    IF ~api_connected
    THEN Outcome(<<>>, <<ErrorLine(NOT_CONNECTED_MSG)>>,
                 DataFrameResult(EmptyDataFrame), "none", NoLocals)
    ELSE IF IsEmpty(records)
    THEN Outcome(<<>>, <<DebugLine(EMPTY_DF_LOG_MSG)>>,
                 DataFrameResult(EmptyDataFrame), "none", NoLocals)
    ELSE
    LET st == apply("delete", LoopStart, table_name, id_column_name, records.rows, resps)
        results == [cols |-> records.cols \o StatusColumns, rows |-> st.rows]
        errors == RowsWhereNot(results.rows, Positions(results.rows), 204)
        failed == failed_rows(results.rows, errors)
        not_found == not_found_rows(results.rows, errors)
        found_lines ==
            IF not_found # <<>> THEN <<DebugLine("Records not found")>> ELSE <<>>
        summary ==
            IF failed # <<>>
            THEN IF ~st.access_requests_needed
                 THEN <<ErrorLine("Errors deleting records")>>
                 ELSE <<>>
            ELSE <<DebugLine("records successfully deleted"),
                   DebugLine("records not found")>>
    IN  IF st.raised # "none"
        THEN Outcome(st.requests, <<DebugLine("Deleting records")>> \o st.log,
                     NoResult, st.raised, BulkLocals(st, <<>>, <<>>, <<>>))
        ELSE Outcome(st.requests,
                     <<DebugLine("Deleting records")>> \o st.log \o found_lines \o summary,
                     DataFrameResult(results), "none",
                     BulkLocals(st, errors, failed, not_found))

\* Falls off the end of the function (returns None) on a 403.
table_delete_record(table_name, record_id, response) ==
    IF ~api_connected
    THEN Outcome(<<>>, <<ErrorLine(NOT_CONNECTED_MSG)>>, BoolResult(FALSE), "none", NoLocals)
    ELSE
    LET r == request("delete", RecordResource(table_name, record_id), FALSE, FALSE,
                     NoData, response)
        before == <<DebugLine("Deleting record")>> \o r.log
    IN  IF response.status_code = 204
        THEN Outcome(<<r.request>>, Append(before, DebugLine("Record successfully deleted")),
                     BoolResult(TRUE), "none", NoLocals)
        ELSE IF response.status_code = 404
        THEN Outcome(<<r.request>>, Append(before, DebugLine("Record not found")),
                     BoolResult(TRUE), "none", NoLocals)
        ELSE IF response.status_code # 403
        THEN Outcome(<<r.request>>, Append(before, ErrorLine("Error deleting record")),
                     BoolResult(FALSE), "none", NoLocals)
        ELSE Outcome(<<r.request>>, before, NoneResult, "none", NoLocals)

----------------------------------------------------------------------------
(* Decoding a 200 body.                                                    *)

\* dict.update({k: v})
DictUpdate(d, k, v) ==
    IF HasKey(d, k)
    THEN [i \in 1..Len(d) |-> IF d[i][1] = k THEN <<k, v>> ELSE d[i]]
    ELSE Append(d, <<k, v>>)

\* The columns of pd.DataFrame(list_of_dicts): every key, in the order in
\* which it is first seen.
RECURSIVE UnionKeys(_, _)
UnionKeys(dicts, acc) ==
    IF dicts = <<>> THEN acc
    ELSE UnionKeys(Tail(dicts),
                   acc \o SelectSeq(Keys(Head(dicts)), LAMBDA k : k \notin Range(acc)))

\* pd.DataFrame(list_of_dicts): a key a dict lacks is a missing value.
DataFrameOf(dicts) ==
    LET cols == UnionKeys(dicts, <<>>)
    IN  [cols |-> cols,
         rows |-> [i \in 1..Len(dicts) |->
                      [c \in Range(cols) |->
                          IF HasKey(dicts[i], c) THEN Get(dicts[i], c) ELSE Null]]]

Parsed(df, lines, exc) == [df |-> df, log |-> lines, raised |-> exc]

\* fields.update({f"{table}.{key}": value}) for every item of the table.
RECURSIVE UpdateFields(_, _, _)
UpdateFields(fields, prefix, items) ==
    IF items = <<>> THEN fields
    ELSE UpdateFields(DictUpdate(fields, prefix \o Head(items)[1], Head(items)[2]),
                      prefix, Tail(items))

\* The inner loop of _pq_parse_response over the tables of the first record;
\* "KeyError" when the record lacks "tables" or one of those tables.
RECURSIVE PqFields(_, _, _)
PqFields(record, tables, fields) ==
    IF tables = <<>> THEN [fields |-> fields, raised |-> "none"]
    ELSE IF ~HasKey(record, "tables") \/ ~HasKey(Get(record, "tables"), Head(tables))
         THEN [fields |-> fields, raised |-> "KeyError"]
         ELSE PqFields(record, Tail(tables),
                       UpdateFields(fields, Head(tables) \o ".",
                                    Get(Get(record, "tables"), Head(tables))))

\* The loop over the records: the list of flattened records.
RECURSIVE PqRecords(_, _, _)
PqRecords(record_list, tables, acc) ==
    IF record_list = <<>> THEN [records |-> acc, raised |-> "none"]
    ELSE LET f == PqFields(Head(record_list), tables, <<>>)
         IN  IF f.raised # "none" THEN [records |-> acc, raised |-> f.raised]
             ELSE PqRecords(Tail(record_list), tables, Append(acc, f.fields))

pq_parse_response(response) ==
    IF ~response.body.is_json THEN Parsed(EmptyDataFrame, <<>>, "JSONDecodeError")
    ELSE
    LET response_json == response.body.json
    IN  IF "record" \notin DOMAIN response_json
        THEN Parsed(EmptyDataFrame, <<DebugLine(NO_RECORDS_LOG_MSG)>>, "none")
        ELSE IF response_json["record"] = <<>>
        THEN Parsed(EmptyDataFrame, <<>>, "IndexError")
        ELSE IF HasKey(response_json["record"][1], "tables")
        THEN LET tables == Keys(Get(response_json["record"][1], "tables"))
                 r == PqRecords(response_json["record"], tables, <<>>)
             IN  IF r.raised # "none"
                 THEN Parsed(EmptyDataFrame, <<DebugLine("records returned")>>, r.raised)
                 ELSE Parsed(DataFrameOf(r.records), <<DebugLine("records returned")>>, "none")
        ELSE Parsed(DataFrameOf(response_json["record"]),
                    <<DebugLine("records returned")>>, "none")

\* The loop of _table_parse_response: "id" and the fields of the table.
RECURSIVE TableRecords(_, _, _)
TableRecords(record_list, table_name, acc) ==
    IF record_list = <<>> THEN [records |-> acc, raised |-> "none"]
    ELSE LET record == Head(record_list)
         IN  IF \/ ~HasKey(record, "id")
                \/ ~HasKey(record, "tables")
                \/ ~HasKey(Get(record, "tables"), table_name)
             THEN [records |-> acc, raised |-> "KeyError"]
             ELSE TableRecords(Tail(record_list), table_name,
                      Append(acc, UpdateFields(<< <<"id", Get(record, "id")>> >>, "",
                                               Get(Get(record, "tables"), table_name))))

table_parse_response(response, table_name) ==
    IF ~response.body.is_json THEN Parsed(EmptyDataFrame, <<>>, "JSONDecodeError")
    ELSE
    LET response_json == response.body.json
    IN  IF "record" \notin DOMAIN response_json
        THEN Parsed(EmptyDataFrame, <<DebugLine(NO_RECORDS_LOG_MSG)>>, "none")
        ELSE IF response_json["record"] = <<>>
        THEN Parsed(EmptyDataFrame, <<>>, "IndexError")
        ELSE IF HasKey(response_json["record"][1], "tables")
        THEN LET r == TableRecords(response_json["record"], table_name, <<>>)
             IN  IF r.raised # "none"
                 THEN Parsed(EmptyDataFrame, <<DebugLine("records returned")>>, r.raised)
                 ELSE Parsed(DataFrameOf(r.records), <<DebugLine("records returned")>>, "none")
        ELSE Parsed(DataFrameOf(response_json["record"]),
                    <<DebugLine("records returned")>>, "none")

----------------------------------------------------------------------------
(* The read methods and the single delete.  response is the server's       *)
(* response to the one request of the call.                                *)

\* Optional[dict]: None, or a dict.
NoneParameters == [is_none |-> TRUE, dict |-> <<>>]
DictParameters(d) == [is_none |-> FALSE, dict |-> d]

\* json.dumps(pq_parameters)
JsonDumps(d) == [json |-> d]

\* full_pq_name with the prefix and the period put in front unconditionally.
full_pq_name_always_prefixed(pq_name) == pq_prefix \o "." \o pq_name

\* The name pq_run sends: prefixed when a prefix is set.
full_pq_name(pq_name) == IF pq_prefix # "" THEN pq_prefix \o "." \o pq_name ELSE pq_name

pq_run(pq_name, pq_parameters, response) ==
    IF ~api_connected
    THEN Outcome(<<>>, <<ErrorLine(NOT_CONNECTED_MSG)>>,
                 DataFrameResult(EmptyDataFrame), "none", NoLocals)
    ELSE
    LET parameters == IF pq_parameters.is_none THEN <<>> ELSE pq_parameters.dict
        resource == "/ws/schema/query/" \o full_pq_name(pq_name) \o "?pagesize=0"
        data == IF DOMAIN parameters # {} THEN JsonDumps(parameters) ELSE NoData
        r == request("post", resource, TRUE, FALSE, data, response)
        before == <<DebugLine("Running PQ")>> \o r.log
        parsed == pq_parse_response(response)
    IN  IF response.status_code = 200
        THEN IF parsed.raised # "none"
             THEN Outcome(<<r.request>>,
                          before \o <<DebugLine("Query successful")>> \o parsed.log,
                          NoResult, parsed.raised, NoLocals)
             ELSE Outcome(<<r.request>>,
                          before \o <<DebugLine("Query successful")>> \o parsed.log,
                          DataFrameResult(parsed.df), "none", NoLocals)
        ELSE Outcome(<<r.request>>,
                     Append(before, ErrorLine("Query failed. See above for response details.")),
                     DataFrameResult(EmptyDataFrame), "none", NoLocals)

table_get_record(table_name, record_id, projection, response) ==
    IF ~api_connected
    THEN Outcome(<<>>, <<ErrorLine(NOT_CONNECTED_MSG)>>,
                 DataFrameResult(EmptyDataFrame), "none", NoLocals)
    ELSE
    LET resource == RecordResource(table_name, record_id) \o "?projection=" \o projection
        r == request("get", resource, TRUE, FALSE, NoData, response)
        before == <<DebugLine("Getting record")>> \o r.log
    IN  IF response.status_code = 200
        THEN IF ~response.body.is_json
             THEN Outcome(<<r.request>>, before, NoResult, "JSONDecodeError", NoLocals)
             ELSE IF "tables" \notin DOMAIN response.body.json
             THEN Outcome(<<r.request>>, before, NoResult, "KeyError", NoLocals)
             ELSE IF table_name \in DOMAIN response.body.json["tables"]
             THEN Outcome(<<r.request>>, Append(before, DebugLine("Record found")),
                          DataFrameResult(
                              DataFrameOf(<<response.body.json["tables"][table_name]>>)),
                          "none", NoLocals)
             ELSE Outcome(<<r.request>>, Append(before, DebugLine(NO_RECORDS_LOG_MSG)),
                          DataFrameResult(EmptyDataFrame), "none", NoLocals)
        ELSE Outcome(<<r.request>>, Append(before, ErrorLine("Error getting record")),
                     DataFrameResult(EmptyDataFrame), "none", NoLocals)

\* The resource of table_get_records: page, pagesize and sort are appended
\* only when given.
RecordsResource(table_name, query_expression, projection, page, pagesize, sort, sortdescending) ==
    "/ws/schema/table/" \o table_name \o "?q=" \o query_expression
        \o "&projection=" \o projection
        \o (IF page > 0 THEN "&page=" \o ToString(page) ELSE "")
        \o (IF pagesize > 0 THEN "&pagesize=" \o ToString(pagesize) ELSE "")
        \o (IF sort # ""
            THEN "&sort=" \o sort \o (IF sortdescending THEN "&sortdescending=true" ELSE "")
            ELSE "")

table_get_records(table_name, query_expression, projection, page, pagesize, sort, sortdescending, response) ==
    IF ~api_connected
    THEN Outcome(<<>>, <<ErrorLine(NOT_CONNECTED_MSG)>>,
                 DataFrameResult(EmptyDataFrame), "none", NoLocals)
    ELSE
    LET resource == RecordsResource(table_name, query_expression, projection, page,
                                    pagesize, sort, sortdescending)
        r == request("get", resource, TRUE, FALSE, NoData, response)
        before == <<DebugLine("Getting records")>> \o r.log
        parsed == table_parse_response(response, table_name)
    IN  IF response.status_code = 200
        THEN IF parsed.raised # "none"
             THEN Outcome(<<r.request>>, before \o parsed.log, NoResult, parsed.raised,
                          NoLocals)
             ELSE Outcome(<<r.request>>, before \o parsed.log,
                          DataFrameResult(parsed.df), "none", NoLocals)
        ELSE Outcome(<<r.request>>, Append(before, ErrorLine("Error getting records")),
                     DataFrameResult(EmptyDataFrame), "none", NoLocals)

\* table_get_record_count without the check of _api_connected.
table_get_record_count_unchecked(table_name, query_expression, response) ==
    LET resource == "/ws/schema/table/" \o table_name \o "/count?q=" \o query_expression
        r == request("get", resource, TRUE, FALSE, NoData, response)
    IN  IF response.status_code = 200 /\ response.body.is_json
           /\ "count" \in DOMAIN response.body.json
        THEN Outcome(<<r.request>>, r.log, IntResult(response.body.json["count"]),
                     "none", NoLocals)
        ELSE Outcome(<<r.request>>, r.log, IntResult(0), "none", NoLocals)

\* response.json() is called before the status code is looked at.
table_get_record_count(table_name, query_expression, response) ==
    IF ~api_connected
    THEN Outcome(<<>>, <<ErrorLine(NOT_CONNECTED_MSG)>>, IntResult(0), "none", NoLocals)
    ELSE
    LET resource == "/ws/schema/table/" \o table_name \o "/count?q=" \o query_expression
        r == request("get", resource, TRUE, FALSE, NoData, response)
        before == <<DebugLine("Getting record count")>> \o r.log
    IN  IF ~response.body.is_json
        THEN Outcome(<<r.request>>, before, NoResult, "JSONDecodeError", NoLocals)
        ELSE IF response.status_code # 200
        THEN Outcome(<<r.request>>, Append(before, ErrorLine("Error getting record count")),
                     IntResult(0), "none", NoLocals)
        ELSE IF "count" \in DOMAIN response.body.json
        THEN Outcome(<<r.request>>, before, IntResult(response.body.json["count"]),
                     "none", NoLocals)
        ELSE Outcome(<<r.request>>, Append(before, DebugLine("No record count found")),
                     IntResult(0), "none", NoLocals)

----------------------------------------------------------------------------
(* class Credential (src/psdatahelper/credential.py).  Server addresses    *)
(* are sequences of characters, as the two regular expressions of the      *)
(* constructor work on characters.                                         *)

SchemeHttp == <<"h", "t", "t", "p", ":", "/", "/">>
SchemeHttps == <<"h", "t", "t", "p", "s", ":", "/", "/">>
HostName == <<"p", "s">>

\* The server addresses a caller passes: none, bare, with a scheme, with
\* trailing slashes, with both, a scheme alone, a scheme twice, and an
\* address that is already normalised.
Addresses ==
    {<<>>,
     HostName,
     SchemeHttp \o HostName,
     SchemeHttps \o HostName,
     HostName \o <<"/", "/">>,
     SchemeHttp \o HostName \o <<"/">>,
     SchemeHttps \o <<"/">>,
     SchemeHttps \o SchemeHttp \o HostName}

Plugins == {"", "plugin"}

\* CredentialType.API and CredentialType.ODBC
CredTypes == {"API", "ODBC"}

\* None, and the truth value of a field ("not self.fields[...]").
PyNone == "<None>"
Truthy(v) == v \notin {PyNone, ""}

StartsWith(s, p) == Len(s) >= Len(p) /\ SubSeq(s, 1, Len(p)) = p

\* re.sub(r"^https?://", "", s)
StripScheme(s) ==
    IF StartsWith(s, SchemeHttps) THEN SubSeq(s, Len(SchemeHttps) + 1, Len(s))
    ELSE IF StartsWith(s, SchemeHttp) THEN SubSeq(s, Len(SchemeHttp) + 1, Len(s))
    ELSE s

\* re.sub(r"/+$", "", s)
RECURSIVE StripTrailingSlashes(_)
StripTrailingSlashes(s) ==
    IF Len(s) > 0 /\ s[Len(s)] = "/"
    THEN StripTrailingSlashes(SubSeq(s, 1, Len(s) - 1))
    ELSE s

\* normalize that leaves a leading scheme in place.
normalize_keeping_scheme(server_address) ==
    SchemeHttps \o StripTrailingSlashes(server_address)

\* The three assignments to self.server_address.
normalize(server_address) ==
    SchemeHttps \o StripTrailingSlashes(StripScheme(server_address))

\* api_fields
ApiFields == [client_id |-> PyNone, client_secret |-> PyNone, access_token |-> PyNone]

\* dict.update(other) on dicts with string keys.
Update(d, other) ==
    [k \in (DOMAIN d) \cup (DOMAIN other) |-> IF k \in DOMAIN other THEN other[k] ELSE d[k]]

\* What the secret store holds under a key: the text json.dumps wrote, or
\* text that json.loads rejects.
Dumps(d) == [valid |-> TRUE, dict |-> d]
NotJson == [valid |-> FALSE, dict |-> <<>>]

\* The key of an entry: (service, username) = (server_name, plugin).
KeyringKey(server_name, plugin) == <<server_name, plugin>>

\* kr.set_password(service, username, password)
set_password(store, key, value) ==
    [k \in (DOMAIN store) \cup {key} |-> IF k = key THEN value ELSE store[k]]

EmptyKeyring == [k \in {} |-> NotJson]

\* One step of a construction that is visible outside the object: a change
\* of server_address, a change of fields, a read or a write of the secret
\* store, a prompt, the token request, the closing of the session.
Event(name, detail) == [event |-> name, detail |-> detail]

\* The object before __init__ has set an attribute.
NoAttributes ==
    [initialized |-> FALSE, server_name |-> <<>>, server_address |-> <<>>, plugin |-> "",
     fields |-> <<>>, loaded |-> FALSE]

\* The attributes __init__ sets before it looks at the credential type.
InitialAttributes(server_address, plugin) ==
    [initialized |-> TRUE, server_name |-> server_address,
     server_address |-> server_address, plugin |-> plugin,
     fields |-> <<>>, loaded |-> FALSE]

\* json.loads(kr.get_password(...)) and fields.update(...), in the try.
Lookup(store, key, fields) ==
    IF key \in DOMAIN store /\ store[key].valid
    THEN [fields |-> Update(fields, store[key].dict), log |-> <<>>]
    ELSE [fields |-> fields, log |-> <<DebugLine("No credentials found")>>]

\* while not self.fields[f]: self.fields[f] = getpass.getpass(...)
\* answers are what the user types, one per prompt; i is the next answer.
RECURSIVE PromptLoop(_, _, _, _)
PromptLoop(field, value, answers, i) ==
    IF Truthy(value) \/ i > Len(answers)
    THEN [value |-> value, trace |-> <<>>]
    ELSE LET rest == PromptLoop(field, answers[i], answers, i + 1)
         IN  [value |-> rest.value,
              trace |-> <<Event("prompt", field)>> \o rest.trace]

\* _load_api_credentials that keeps what the user typed in memory only.
load_api_credentials_not_storing(c, store, id_answers, secret_answers) ==
    LET key == KeyringKey(c.server_name, c.plugin)
        found == Lookup(store, key, c.fields)
        f0 == found.fields
    IN  IF ~Truthy(f0.client_id) \/ ~Truthy(f0.client_secret)
        THEN LET id == PromptLoop("client_id", f0.client_id, id_answers, 1)
                 secret == PromptLoop("client_secret", f0.client_secret, secret_answers, 1)
                 f1 == [f0 EXCEPT !.client_id = id.value, !.client_secret = secret.value]
             IN  [fields |-> f1,
                  keyring |-> store,
                  trace |-> <<Event("get_password", key)>> \o id.trace \o secret.trace,
                  log |-> found.log]
        ELSE [fields |-> f0,
              keyring |-> store,
              trace |-> <<Event("get_password", key)>>,
              log |-> found.log]

\* Credential._load_api_credentials
load_api_credentials(c, store, id_answers, secret_answers) ==
    LET key == KeyringKey(c.server_name, c.plugin)
        found == Lookup(store, key, c.fields)
        f0 == found.fields
    IN  IF ~Truthy(f0.client_id) \/ ~Truthy(f0.client_secret)
        THEN LET id == PromptLoop("client_id", f0.client_id, id_answers, 1)
                 secret == PromptLoop("client_secret", f0.client_secret, secret_answers, 1)
                 f1 == [f0 EXCEPT !.client_id = id.value, !.client_secret = secret.value]
             IN  [fields |-> f1,
                  keyring |-> set_password(store, key, Dumps(f1)),
                  trace |-> <<Event("get_password", key)>> \o id.trace \o secret.trace
                                \o <<Event("set_password", Dumps(f1))>>,
                  log |-> found.log \o <<DebugLine("Credentials stored")>>]
        ELSE [fields |-> f0,
              keyring |-> store,
              trace |-> <<Event("get_password", key)>>,
              log |-> found.log]

\* What fetch_token does: it returns a token, or raises InvalidClientError
\* or another exception.
TokenReturned(t) == [raised |-> "none", access_token |-> t]
ExchangeFailed(e) == [raised |-> e, access_token |-> PyNone]
Exchanges ==
    {TokenReturned("token-1"), TokenReturned("token-2"),
     ExchangeFailed("InvalidClientError"), ExchangeFailed("Exception")}

\* Credential._get_api_access_token
get_api_access_token(c, fields, exchange) ==
    LET sent == Event("fetch_token",
                      [token_url |-> c.server_address \o <<"/oauth/access_token">>,
                       client_id |-> fields.client_id,
                       client_secret |-> fields.client_secret])
        closed == Event("session.close", <<>>)
    IN  IF exchange.raised = "InvalidClientError"
        THEN [fields |-> fields, trace |-> <<sent, closed>>,
              log |-> <<DebugLine("Opening session"), ErrorLine("Invalid client error")>>]
        ELSE IF exchange.raised # "none"
        THEN [fields |-> fields, trace |-> <<sent, closed>>,
              log |-> <<DebugLine("Opening session"), ErrorLine("Error fetching token")>>]
        ELSE [fields |-> [fields EXCEPT !.access_token = exchange.access_token],
              trace |-> <<sent, closed>>,
              log |-> <<DebugLine("Opening session"), DebugLine("Access token obtained")>>]

\* What a construction leaves behind.
Constructed(c, store, events, lines) ==
    [credential |-> c, keyring |-> store, trace |-> events, log |-> lines]

\* Credential._initialize_api_credentials, with _save_api_credentials.
initialize_api_credentials(c0, store, id_answers, secret_answers, exchange) ==
    IF c0.plugin = ""
    THEN Constructed(c0, store, <<>>, <<ErrorLine("Plugin name not provided")>>)
    ELSE
    LET c1 == [c0 EXCEPT !.server_address = normalize(c0.server_address)]
        c2 == [c1 EXCEPT !.fields = Update(c1.fields, ApiFields)]
        before == <<Event("server_address", c1.server_address), Event("fields", c2.fields)>>
        ld == load_api_credentials(c2, store, id_answers, secret_answers)
    IN  IF Truthy(ld.fields.client_id) /\ Truthy(ld.fields.client_secret)
        THEN LET got == get_api_access_token(c2, ld.fields, exchange)
                 c3 == [c2 EXCEPT !.fields = got.fields]
                 key == KeyringKey(c3.server_name, c3.plugin)
             IN  IF Truthy(got.fields.access_token)
                 THEN Constructed([c3 EXCEPT !.loaded = TRUE],
                                  set_password(ld.keyring, key, Dumps(got.fields)),
                                  before \o ld.trace \o got.trace
                                      \o <<Event("set_password", Dumps(got.fields))>>,
                                  ld.log \o got.log \o <<DebugLine("Credentials stored")>>)
                 ELSE Constructed(c3, ld.keyring, before \o ld.trace \o got.trace,
                                  ld.log \o got.log)
        ELSE Constructed([c2 EXCEPT !.fields = ld.fields], ld.keyring, before \o ld.trace,
                         ld.log \o <<ErrorLine("Client ID or client secret not provided")>>)

\* Credential.__init__
credential_init(server_address, plugin, cred_type, store, id_answers, secret_answers, exchange) ==
    IF server_address = <<>>
    THEN Constructed(NoAttributes, store, <<>>, <<ErrorLine("Server address not provided")>>)
    ELSE IF cred_type = "API"
    THEN initialize_api_credentials(InitialAttributes(server_address, plugin), store,
                                    id_answers, secret_answers, exchange)
    ELSE Constructed(InitialAttributes(server_address, plugin), store, <<>>,
                     <<ErrorLine("ODBC credential type not yet implemented")>>)

----------------------------------------------------------------------------
(* The state machine.                                                      *)

\* API.__init__, given whether the credential is loaded and whether
\* OAuth2Session(...) raised.
api_init(credential_loaded, session_raises) ==
    IF ~credential_loaded
    THEN [connected |-> FALSE, session |-> "unset",
          log |-> <<ErrorLine("API not connected because credentials are not loaded")>>]
    ELSE IF session_raises
    THEN [connected |-> FALSE, session |-> "unset",
          log |-> <<ErrorLine("Error connecting to the PowerSchool API")>>]
    ELSE [connected |-> TRUE, session |-> "open",
          log |-> <<DebugLine("Connected to the PowerSchool API")>>]

\* The credentials an API object is built from: one whose construction
\* obtained a token, and one whose token exchange failed.
LoadedCredential ==
    [initialized |-> TRUE, server_name |-> HostName, server_address |-> normalize(HostName),
     plugin |-> "plugin",
     fields |-> [client_id |-> "id-1", client_secret |-> "secret-1", access_token |-> "token-1"],
     loaded |-> TRUE]
UnloadedCredential ==
    [initialized |-> TRUE, server_name |-> HostName, server_address |-> normalize(HostName),
     plugin |-> "plugin",
     fields |-> [client_id |-> "id-1", client_secret |-> "secret-1", access_token |-> PyNone],
     loaded |-> FALSE]
ApiCredentials == {LoadedCredential, UnloadedCredential}

Init ==
    \E c0 \in ApiCredentials, session_raises \in BOOLEAN :
        LET c == api_init(c0.loaded, session_raises)
        IN  /\ api_connected = c.connected
            /\ session = c.session
            /\ pq_prefix = ""
            /\ has_errors = HasErrorLine(c.log)
            /\ pc = "returned"
            /\ op = "__init__"
            /\ args = [credential_loaded |-> c0.loaded]
            /\ requests = <<>>
            /\ log = c.log
            /\ result = NoResult
            /\ raised = "none"
            /\ locals = NoLocals
            /\ credential = c0
            /\ keyring = EmptyKeyring
            /\ trace = <<>>
            /\ email_config = NoEmailConfig

\* A call of a method, from its start to its return or to the exception that
\* leaves it.  Calls do not overlap: a call starts when pc = "idle".
Call(name, a, out) ==
    /\ pc' = "returned"
    /\ op' = name
    /\ args' = a
    /\ requests' = out.requests
    /\ log' = out.log
    /\ result' = out.result
    /\ raised' = out.raised
    /\ locals' = out.locals
    /\ has_errors' = (has_errors \/ HasErrorLine(out.log))
    /\ UNCHANGED <<api_connected, session, credential, keyring, trace, email_config>>

\* The inputs the environment draws from.
IdColumnNames == {"id"}
RecordIds == {"1", "2"}
PqNames == {"daily_totals"}
PqPrefixes == {"", "com.vendor.attendance", "com.vendor.core"}
PqParameters == {NoneParameters, DictParameters(<<>>), DictParameters([yearid |-> "34"])}
QueryExpressions == {"id=gt=0"}
Projections == {"*"}
PagingArguments ==
    {[page |-> 0, pagesize |-> 0, sort |-> "", sortdescending |-> FALSE],
     [page |-> 2, pagesize |-> 10, sort |-> "", sortdescending |-> TRUE],
     [page |-> 0, pagesize |-> 0, sort |-> "name", sortdescending |-> FALSE],
     [page |-> 1, pagesize |-> 0, sort |-> "name", sortdescending |-> TRUE]}

PqSetPrefix ==
    /\ pc = "idle"
    /\ \E pq_prefix_arg \in PqPrefixes :
           /\ Call("pq_set_prefix", [pq_prefix |-> pq_prefix_arg],
                   Outcome(<<>>, <<DebugLine("PowerQuery prefix set")>>, NoneResult, "none",
                           NoLocals))
           /\ pq_prefix' = pq_prefix_arg

PqRun ==
    /\ pc = "idle"
    /\ \E pq_name \in PqNames, pq_parameters \in PqParameters, response \in Responses :
           /\ Call("pq_run",
                   [pq_name |-> pq_name, pq_parameters |-> pq_parameters,
                    response |-> response],
                   pq_run(pq_name, pq_parameters, response))
           /\ UNCHANGED pq_prefix

TableGetRecord ==
    /\ pc = "idle"
    /\ \E table_name \in TableNames, record_id \in RecordIds, projection \in Projections,
          response \in ReadResponses :
           /\ Call("table_get_record",
                   [table_name |-> table_name, record_id |-> record_id,
                    projection |-> projection, response |-> response],
                   table_get_record(table_name, record_id, projection, response))
           /\ UNCHANGED pq_prefix

TableGetRecords ==
    /\ pc = "idle"
    /\ \E table_name \in TableNames, query_expression \in QueryExpressions,
          projection \in Projections, p \in PagingArguments, response \in ReadResponses :
           /\ Call("table_get_records",
                   [table_name |-> table_name, query_expression |-> query_expression,
                    projection |-> projection, paging |-> p, response |-> response],
                   table_get_records(table_name, query_expression, projection, p.page,
                                     p.pagesize, p.sort, p.sortdescending, response))
           /\ UNCHANGED pq_prefix

TableGetRecordCount ==
    /\ pc = "idle"
    /\ \E table_name \in TableNames, query_expression \in QueryExpressions,
          response \in ReadResponses :
           /\ Call("table_get_record_count",
                   [table_name |-> table_name, query_expression |-> query_expression,
                    response |-> response],
                   table_get_record_count(table_name, query_expression, response))
           /\ UNCHANGED pq_prefix

TableInsertRecords ==
    /\ pc = "idle"
    /\ \E table_name \in TableNames, records \in DataFrames :
           \E resps \in BulkAnswers(api_connected, records, {}) :
               /\ Call("table_insert_records",
                       [table_name |-> table_name, records |-> records, responses |-> resps],
                       table_insert_records(table_name, records, resps))
               /\ UNCHANGED pq_prefix

TableUpdateRecords ==
    /\ pc = "idle"
    /\ \E table_name \in TableNames, id_column_name \in IdColumnNames, records \in DataFrames :
           \E resps \in BulkAnswers(api_connected, records, {id_column_name}) :
               /\ Call("table_update_records",
                       [table_name |-> table_name, id_column_name |-> id_column_name,
                        records |-> records, responses |-> resps],
                       table_update_records(table_name, id_column_name, records, resps))
               /\ UNCHANGED pq_prefix

TableDeleteRecord ==
    /\ pc = "idle"
    /\ \E table_name \in TableNames, record_id \in RecordIds, response \in Responses :
           /\ Call("table_delete_record",
                   [table_name |-> table_name, record_id |-> record_id, response |-> response],
                   table_delete_record(table_name, record_id, response))
           /\ UNCHANGED pq_prefix

TableDeleteRecords ==
    /\ pc = "idle"
    /\ \E table_name \in TableNames, id_column_name \in IdColumnNames, records \in DataFrames :
           \E resps \in BulkAnswers(api_connected, records, {id_column_name}) :
               /\ Call("table_delete_records",
                       [table_name |-> table_name, id_column_name |-> id_column_name,
                        records |-> records, responses |-> resps],
                       table_delete_records(table_name, id_column_name, records, resps))
               /\ UNCHANGED pq_prefix

\* The JSON object a server that stored the fields of a payload returns for
\* them: the fields, in the order of the columns they came from.
RECURSIVE StoredObject(_, _)
StoredObject(cols, stored_fields) ==
    IF cols = <<>> THEN <<>>
    ELSE (IF Head(cols) \in DOMAIN stored_fields
          THEN << <<Head(cols), stored_fields[Head(cols)]>> >>
          ELSE <<>>) \o StoredObject(Tail(cols), stored_fields)

\* The caller reads back a record it has just inserted: table_get_record,
\* answered by a server that stored exactly the fields of the payload of
\* row k and returns them under "tables" and the name of the table.
TableGetInsertedRecord ==
    /\ pc = "returned"
    /\ op = "table_insert_records"
    /\ \E k \in 1..Len(requests), record_id \in RecordIds, projection \in Projections :
           /\ args.responses[k].status_code = 200
           /\ LET stored_fields == requests[k].data.tables[args.table_name]
                  response ==
                      Response(200, JsonBody(
                          [tables |-> [t \in {args.table_name} |->
                                          StoredObject(args.records.cols, stored_fields)]]))
              IN  Call("table_get_record",
                       [table_name |-> args.table_name, record_id |-> record_id,
                        projection |-> projection, response |-> response,
                        inserted |-> args.records.rows[k]],
                       table_get_record(args.table_name, record_id, projection, response))
           /\ UNCHANGED pq_prefix

\* API.__del__: session.close() on an object that has no session attribute
\* raises AttributeError.
api_del(s) ==
    IF s = "unset"
    THEN [session |-> s, trace |-> <<>>, raised |-> "AttributeError",
          log |-> <<DebugLine("Closing API session")>>]
    ELSE [session |-> "closed", trace |-> <<Event("session.close", <<>>)>>, raised |-> "none",
          log |-> <<DebugLine("Closing API session")>>]

\* The API object is discarded.
Del ==
    /\ pc = "idle"
    /\ LET d == api_del(session)
       IN  /\ session' = d.session
           /\ trace' = d.trace
           /\ raised' = d.raised
           /\ log' = d.log
    /\ pc' = "returned"
    /\ op' = "__del__"
    /\ args' = <<>>
    /\ requests' = <<>>
    /\ result' = NoResult
    /\ locals' = NoLocals
    /\ UNCHANGED <<api_connected, pq_prefix, has_errors, credential, keyring, email_config>>

\* The caller takes the result; the locals of the call are gone.  After
\* __del__ there is no object left to call.
Return ==
    /\ pc = "returned"
    /\ pc' = IF op = "__del__" THEN "discarded" ELSE "idle"
    /\ op' = "-"
    /\ args' = <<>>
    /\ requests' = <<>>
    /\ log' = <<>>
    /\ result' = NoResult
    /\ raised' = "none"
    /\ locals' = NoLocals
    /\ trace' = <<>>
    /\ UNCHANGED <<api_connected, session, pq_prefix, has_errors, credential, keyring,
                   email_config>>

Next ==
    \/ PqSetPrefix
    \/ PqRun
    \/ TableGetRecord
    \/ TableGetRecords
    \/ TableGetRecordCount
    \/ TableInsertRecords
    \/ TableUpdateRecords
    \/ TableDeleteRecord
    \/ TableDeleteRecords
    \/ TableGetInsertedRecord
    \/ Del
    \/ Return

Spec == Init /\ [][Next]_vars

----------------------------------------------------------------------------
(* The construction of Credential objects against one secret store.        *)

\* Keys the secret store may hold at the same time.
MaxStoredKeys == 1

\* What the store holds before the first construction: nothing, or an entry
\* written by something else under the key of HostName and "plugin".
ForeignValues == {NotJson, Dumps([client_id |-> "id-0"])}
InitialKeyrings ==
    {EmptyKeyring}
        \cup {set_password(EmptyKeyring, KeyringKey(HostName, "plugin"), v) : v \in ForeignValues}

\* A construction that gets as far as the secret store.
ReachesStore(server_address, plugin, cred_type) ==
    server_address # <<>> /\ plugin # "" /\ cred_type = "API"

\* What the user types at the prompts for a field: a value, or nothing
\* first and then a value.  No prompt, no answer.
Answers(field, value, asked) ==
    IF asked
    THEN {<<value>>, <<"", value>>}
    ELSE {<<>>}

NotAttempted == ExchangeFailed("not attempted")

CredInit ==
    /\ credential = NoAttributes
    /\ keyring \in InitialKeyrings
    /\ trace = <<>>
    /\ email_config = NoEmailConfig
    /\ api_connected = FALSE
    /\ session = "unset"
    /\ pq_prefix = ""
    /\ has_errors = FALSE
    /\ pc = "idle"
    /\ op = "-"
    /\ args = <<>>
    /\ requests = <<>>
    /\ log = <<>>
    /\ result = NoResult
    /\ raised = "none"
    /\ locals = NoLocals

\* Credential(server_address, plugin, cred_type)
CredentialInit ==
    /\ pc = "idle"
    /\ \E server_address \in Addresses, plugin \in Plugins, cred_type \in CredTypes :
        LET reaches == ReachesStore(server_address, plugin, cred_type)
            key == KeyringKey(server_address, plugin)
            found == Lookup(keyring, key, ApiFields).fields
        IN  /\ reaches =>
                   (key \in DOMAIN keyring \/ Cardinality(DOMAIN keyring) < MaxStoredKeys)
            /\ \E id_answers \in Answers("client_id", "id-1",
                                          reaches /\ ~Truthy(found.client_id)),
                  secret_answers \in Answers("client_secret", "secret-1",
                                              reaches /\ ~Truthy(found.client_secret)),
                  exchange \in (IF reaches THEN Exchanges ELSE {NotAttempted}) :
                   LET out == credential_init(server_address, plugin, cred_type, keyring,
                                              id_answers, secret_answers, exchange)
                   IN  /\ credential' = out.credential
                       /\ keyring' = out.keyring
                       /\ trace' = out.trace
                       /\ log' = out.log
                       /\ has_errors' = (has_errors \/ HasErrorLine(out.log))
                       /\ pc' = "returned"
                       /\ op' = "Credential"
                       /\ args' = [server_address |-> server_address, plugin |-> plugin,
                                   cred_type |-> cred_type, keyring |-> keyring,
                                   id_answers |-> id_answers,
                                   secret_answers |-> secret_answers,
                                   exchange |-> exchange]
                       /\ requests' = <<>>
                       /\ result' = NoResult
                       /\ raised' = "none"
                       /\ locals' = NoLocals
                       /\ UNCHANGED <<api_connected, session, pq_prefix, email_config>>

\* API(credential): reading credential.loaded raises AttributeError when
\* Credential.__init__ returned before it set the attribute.
api_construct(c, session_raises) ==
    IF ~c.initialized
    THEN [connected |-> FALSE, session |-> "unset", log |-> <<>>, raised |-> "AttributeError"]
    ELSE LET a == api_init(c.loaded, session_raises)
         IN  [connected |-> a.connected, session |-> a.session, log |-> a.log,
              raised |-> "none"]

\* An API client is constructed on the Credential that has just been
\* constructed.  The client has its own Log.
ApiInit ==
    /\ pc = "returned"
    /\ op = "Credential"
    /\ \E session_raises \in BOOLEAN :
           LET a == api_construct(credential, session_raises)
           IN  /\ api_connected' = a.connected
               /\ session' = a.session
               /\ log' = a.log
               /\ raised' = a.raised
               /\ args' = [credential_args |-> args, session_raises |-> session_raises]
    /\ pc' = "returned"
    /\ op' = "__init__"
    /\ pq_prefix' = ""
    /\ requests' = <<>>
    /\ result' = NoResult
    /\ locals' = NoLocals
    /\ trace' = <<>>
    /\ UNCHANGED <<has_errors, credential, keyring, email_config>>

CredNext ==
    \/ CredentialInit
    \/ ApiInit
    \/ Return

CredSpec == CredInit /\ [][CredNext]_vars

----------------------------------------------------------------------------
(* The legacy Helper (src/psdatahelper/__init__.py): update_table_records   *)
(* with the delete-and-reinsert fallback.                                    *)

\* A call of self._ps.put / delete / post.  row is the position, in the
\* caller's DataFrame, of the row whose row function sent it.
HelperRequest(method, resource, data, position) ==
    [method |-> method, resource |-> resource, data |-> data, row |-> position]

\* f'ws/schema/table/{table_name}' and f'ws/schema/table/{table_name}/{id}'
HelperTableResource(table_name) == "ws/schema/table/" \o table_name
HelperRecordResource(table_name, record_id) ==
    "ws/schema/table/" \o table_name \o "/" \o record_id

\* What the server answers to the PUT of a row, to its DELETE and to its
\* POST, should the method send them.
HelperPutResponses == {Response(c, TextBody("")) : c \in {200, 400}}
HelperDeleteResponses == {Response(c, TextBody("")) : c \in {204, 404, 500}}
HelperPostResponses == {Response(c, TextBody("")) : c \in {200, 400}}

HelperRowAnswers ==
    [put : HelperPutResponses, delete : HelperDeleteResponses, post : HelperPostResponses]

HelperLoopStart == [requests |-> <<>>, rows |-> <<>>]

\* A row of a results DataFrame, with the position it had in the caller's.
HelperResultRow(position, row, response) ==
    [position |-> position, row |-> WithStatus(row, response)]

Helper_update_records(st, table_name, id_column_name, position, row, answer) ==
    [requests |->
         Append(st.requests,
                HelperRequest("put", HelperRecordResource(table_name, row[id_column_name]),
                              Payload(table_name, dropna(row)), position)),
     rows |-> Append(st.rows, HelperResultRow(position, row, answer.put))]

\* update_records_with_delete that reinserts whatever the DELETE returned.
Helper_update_records_with_delete_always_posting(st, table_name, id_column_name, position, row, answer) ==
    [requests |->
         st.requests \o
         <<HelperRequest("delete", HelperRecordResource(table_name, row[id_column_name]),
                         NoData, position),
           HelperRequest("post", HelperTableResource(table_name),
                         Payload(table_name, dropna(row)), position)>>,
     rows |-> Append(st.rows, HelperResultRow(position, row, answer.post))]

Helper_update_records_with_delete(st, table_name, id_column_name, position, row, answer) ==
    LET delete_request ==
            HelperRequest("delete", HelperRecordResource(table_name, row[id_column_name]),
                          NoData, position)
    IN  IF answer.delete.status_code = 204 \/ answer.delete.status_code = 404
        THEN [requests |->
                  st.requests \o
                  <<delete_request,
                    HelperRequest("post", HelperTableResource(table_name),
                                  Payload(table_name, dropna(row)), position)>>,
              rows |-> Append(st.rows, HelperResultRow(position, row, answer.post))]
        ELSE [requests |-> Append(st.requests, delete_request),
              rows |-> Append(st.rows, HelperResultRow(position, row, answer.delete))]

\* DataFrame.apply(f, axis=1) over the rows at the given positions.
RECURSIVE Helper_apply(_, _, _, _, _, _, _)
Helper_apply(with_delete, st, table_name, id_column_name, positions, rows, answers) ==
    IF positions = <<>> THEN st
    ELSE LET k == Head(positions)
         IN  Helper_apply(with_delete,
                 IF with_delete
                 THEN Helper_update_records_with_delete(st, table_name, id_column_name,
                                                        k, rows[k], answers[k])
                 ELSE Helper_update_records(st, table_name, id_column_name,
                                            k, rows[k], answers[k]),
                 table_name, id_column_name, Tail(positions), rows, answers)

\* results.loc[results['response_status_code'] != 200]
HelperErrors(result_rows) ==
    SelectSeq(result_rows, LAMBDA r : r.row["response_status_code"] # 200)

HelperLocals(results, errors) == [results |-> results, errors |-> errors]

Helper_update_table_records(table_name, id_column_name, records, answers) ==
    IF ~api_connected
    THEN Outcome(<<>>, <<ErrorLine("Records not updated because the API is not connected")>>,
                 NoneResult, "none", HelperLocals(<<>>, <<>>))
    ELSE IF IsEmpty(records)
    THEN Outcome(<<>>, <<DebugLine("Updating records")>>,
                 NoneResult, "none", HelperLocals(<<>>, <<>>))
    ELSE IF id_column_name \notin Range(records.cols)
    THEN Outcome(<<>>, <<DebugLine("Updating records"),
                         ErrorLine("ID column not found in records")>>,
                 NoneResult, "none", HelperLocals(<<>>, <<>>))
    ELSE
    LET first == Helper_apply(FALSE, HelperLoopStart, table_name, id_column_name,
                              Positions(records.rows), records.rows, answers)
        first_errors == HelperErrors(first.rows)
        second == Helper_apply(TRUE, [requests |-> first.requests, rows |-> <<>>],
                               table_name, id_column_name,
                               [i \in 1..Len(first_errors) |-> first_errors[i].position],
                               records.rows, answers)
        errors == HelperErrors(second.rows)
    IN  IF first_errors = <<>>
        THEN Outcome(first.requests,
                     <<DebugLine("Updating records"), DebugLine("Records updated")>>,
                     NoneResult, "none", HelperLocals(first.rows, first_errors))
        ELSE Outcome(second.requests,
                     <<DebugLine("Updating records"),
                       IF errors # <<>> THEN ErrorLine("Errors updating records")
                       ELSE DebugLine("Records successfully updated")>>,
                     NoneResult, "none", HelperLocals(second.rows, errors))

\* The state after Helper(server_url, script_name, plugin): connected unless
\* acme_powerschool.api raised.
HelperInit ==
    /\ api_connected \in BOOLEAN
    /\ has_errors = ~api_connected
    /\ log = <<IF api_connected THEN DebugLine("Connected to the PowerSchool API")
               ELSE ErrorLine("Error connecting to the PowerSchool API")>>
    /\ pc = "returned"
    /\ op = "Helper"
    /\ args = [connect_raises |-> ~api_connected]
    /\ session = "unset"
    /\ pq_prefix = ""
    /\ requests = <<>>
    /\ result = NoResult
    /\ raised = "none"
    /\ locals = NoLocals
    /\ credential = NoAttributes
    /\ keyring = EmptyKeyring
    /\ trace = <<>>
    /\ email_config = NoEmailConfig

HelperAnswers(connected, records, id_column_name) ==
    [1..(IF connected /\ ~IsEmpty(records) /\ id_column_name \in Range(records.cols)
         THEN Len(records.rows) ELSE 0) -> HelperRowAnswers]

HelperUpdateTableRecords ==
    /\ pc = "idle"
    /\ \E table_name \in TableNames, id_column_name \in IdColumnNames, records \in DataFrames :
           \E answers \in HelperAnswers(api_connected, records, id_column_name) :
               /\ Call("update_table_records",
                       [table_name |-> table_name, id_column_name |-> id_column_name,
                        records |-> records, answers |-> answers],
                       Helper_update_table_records(table_name, id_column_name, records,
                                                   answers))
               /\ UNCHANGED pq_prefix

HelperNext ==
    \/ HelperUpdateTableRecords
    \/ Return

HelperSpec == HelperInit /\ [][HelperNext]_vars

----------------------------------------------------------------------------
(* Log (src/psdatahelper/log.py): the has_errors flag and the error report. *)

\* The methods that write one line.
LogMethods == {"debug", "info", "warning", "error", "critical", "log", "exception"}

\* error, critical and exception end with self.has_errors = True; debug,
\* info, warning and log do not touch the flag.
SetsHasErrors(method) == method \in {"error", "critical", "exception"}

\* The level of the line a method writes; Log.log is called with a level.
LevelOf(method, level) ==
    IF method = "log" THEN level
    ELSE IF method = "exception" THEN "error"
    ELSE method

LogLevels == {"debug", "info", "warning", "error", "critical"}

LogLine(level, msg) == [level |-> level, msg |-> msg, detail |-> <<>>]

\* What set_email_config is called with.
EmailConfigs ==
    [smtp_server : {"", "smtp.example.org"}, sender_address : {"", "sender@example.org"},
     sender_name : {"", "Reports"}, recipients : {"", "admin@example.org"}]

\* The EmailMessage of the error report.
ErrorReport(config) ==
    [From |-> <<config.sender_name, config.sender_address>>, To |-> config.recipients,
     Subject |-> "Error Report"]

\* send_error_report that does not look at the recipients.
send_error_report_without_recipients(flag, config, smtp_raises) ==
    IF ~flag
    THEN [has_errors |-> flag, log |-> <<DebugLine("No errors to report")>>, trace |-> <<>>]
    ELSE IF config.smtp_server = ""
    THEN [has_errors |-> TRUE, log |-> <<ErrorLine("No SMTP server specified")>>,
          trace |-> <<>>]
    ELSE IF config.sender_address = ""
    THEN [has_errors |-> TRUE,
          log |-> <<ErrorLine("Sender address or recipients not specified")>>,
          trace |-> <<>>]
    ELSE IF smtp_raises
    THEN [has_errors |-> TRUE,
          log |-> <<DebugLine("Sending error report"),
                    ErrorLine("Error sending error report")>>,
          trace |-> <<>>]
    ELSE [has_errors |-> flag,
          log |-> <<DebugLine("Sending error report"),
                    DebugLine("Error report sent successfully")>>,
          trace |-> <<Event("send_message", ErrorReport(config))>>]

\* send_error_report on a Log whose flag is flag and whose configuration is
\* config; smtp_raises: smtplib.SMTP or send_message raises.
send_error_report(flag, config, smtp_raises) ==
    IF ~flag
    THEN [has_errors |-> flag, log |-> <<DebugLine("No errors to report")>>, trace |-> <<>>]
    ELSE IF config.smtp_server = ""
    THEN [has_errors |-> TRUE, log |-> <<ErrorLine("No SMTP server specified")>>,
          trace |-> <<>>]
    ELSE IF config.sender_address = "" \/ config.recipients = ""
    THEN [has_errors |-> TRUE,
          log |-> <<ErrorLine("Sender address or recipients not specified")>>,
          trace |-> <<>>]
    ELSE IF smtp_raises
    THEN [has_errors |-> TRUE,
          log |-> <<DebugLine("Sending error report"),
                    ErrorLine("Error sending error report")>>,
          trace |-> <<>>]
    ELSE [has_errors |-> flag,
          log |-> <<DebugLine("Sending error report"),
                    DebugLine("Error report sent successfully")>>,
          trace |-> <<Event("send_message", ErrorReport(config))>>]

\* The state after Log(log_file_name).
LogInit ==
    /\ has_errors = FALSE
    /\ email_config = NoEmailConfig
    /\ log = <<DebugLine("Logging initialized")>>
    /\ pc = "returned"
    /\ op = "Log"
    /\ args = <<>>
    /\ trace = <<>>
    /\ api_connected = FALSE
    /\ session = "unset"
    /\ pq_prefix = ""
    /\ requests = <<>>
    /\ result = NoResult
    /\ raised = "none"
    /\ locals = NoLocals
    /\ credential = NoAttributes
    /\ keyring = EmptyKeyring

\* What a method of the Log leaves alone.
LogMethodFrame ==
    /\ pc' = "returned"
    /\ requests' = <<>>
    /\ result' = NoneResult
    /\ raised' = "none"
    /\ locals' = NoLocals
    /\ UNCHANGED <<api_connected, session, pq_prefix, credential, keyring>>

\* Log.debug, info, warning, error, critical, log and exception.
LogWrite ==
    /\ pc = "idle"
    /\ \E method \in LogMethods, level \in LogLevels :
           /\ op' = method
           /\ args' = [level |-> LevelOf(method, level), msg |-> "message"]
           /\ log' = <<LogLine(LevelOf(method, level), "message")>>
           /\ has_errors' = (has_errors \/ SetsHasErrors(method))
    /\ trace' = <<>>
    /\ LogMethodFrame
    /\ UNCHANGED email_config

SetEmailConfig ==
    /\ pc = "idle"
    /\ \E config \in EmailConfigs :
           /\ email_config' = config
           /\ args' = config
    /\ op' = "set_email_config"
    /\ log' = <<DebugLine("Email configuration set.")>>
    /\ trace' = <<>>
    /\ LogMethodFrame
    /\ UNCHANGED has_errors

\* args keeps the flag the call found.
SendErrorReport ==
    /\ pc = "idle"
    /\ \E smtp_raises \in BOOLEAN :
           LET out == send_error_report(has_errors, email_config, smtp_raises)
           IN  /\ has_errors' = out.has_errors
               /\ log' = out.log
               /\ trace' = out.trace
               /\ args' = [has_errors |-> has_errors, smtp_raises |-> smtp_raises]
    /\ op' = "send_error_report"
    /\ LogMethodFrame
    /\ UNCHANGED email_config

LogNext ==
    \/ LogWrite
    \/ SetEmailConfig
    \/ SendErrorReport
    \/ Return

LogSpec == LogInit /\ [][LogNext]_vars

----------------------------------------------------------------------------
(* Properties.                                                             *)

BulkOps == {"table_insert_records", "table_update_records", "table_delete_records"}
ReadOps == {"pq_run", "table_get_record", "table_get_records", "table_get_record_count"}
WriteOps == BulkOps \cup {"table_delete_record"}

Returned(names) == pc = "returned" /\ op \in names

NumRows == Len(args.records.rows)

\* The input record set has no row or no column.
InputIsEmpty == Len(args.records.rows) = 0 \/ Len(args.records.cols) = 0

\* A bulk call that got as far as its loop over the rows.
BulkLoopRan ==
    /\ Returned(BulkOps)
    /\ api_connected
    /\ ~InputIsEmpty
    /\ (op # "table_insert_records" => args.id_column_name \in Range(args.records.cols))


StatusOf(k) == result.value.rows[k]["response_status_code"]

\* C1: on a connected client, a bulk call over a non-empty record set of N
\* rows (that has the id column when the call takes one) returns N rows in
\* the order of the input, with the input's columns followed by the two
\* status columns, and row k carries the status and the body of the response
\* to row k.
C1_ResultHasOneRowPerInputRow ==
    BulkLoopRan =>
        /\ raised = "none"
        /\ result.type = "DataFrame"
        /\ result.value.cols = args.records.cols \o StatusColumns
        /\ Len(result.value.rows) = NumRows
        /\ \A k \in 1..NumRows :
              /\ StatusOf(k) = args.responses[k].status_code
              /\ result.value.rows[k]["response_text"] = args.responses[k].body
              /\ \A c \in Range(args.records.cols) :
                    args.records.rows[k][c] # Null =>
                        result.value.rows[k][c] = args.records.rows[k][c]

C1_Witness ==
    /\ BulkLoopRan
    /\ op = "table_delete_records"
    /\ NumRows = 2
    /\ args.records.rows[1]["id"] = "2"
    /\ args.records.rows[2]["id"] = "1"
    /\ result.value.rows[1]["response_status_code"] = 404
    /\ result.value.rows[2]["response_status_code"] = 204

\* C2: after a bulk call every result row is in exactly one of the two
\* partitions: for insert and update it is among the errors exactly when its
\* status is not 200; for delete it is among the failed rows exactly when its
\* status is neither 204 nor 404, and a 404 row is among the rows not found.
C2_SuccessPartition ==
    BulkLoopRan =>
        \A k \in 1..NumRows :
            IF op = "table_delete_records"
            THEN /\ (k \in Range(locals.failed)) <=> (StatusOf(k) \notin {204, 404})
                 /\ (k \in Range(locals.not_found)) <=> (StatusOf(k) = 404)
                 /\ ~(k \in Range(locals.failed) /\ k \in Range(locals.not_found))
            ELSE (k \in Range(locals.errors)) <=> (StatusOf(k) # 200)

C2_Witness ==
    /\ BulkLoopRan
    /\ op = "table_delete_records"
    /\ NumRows = 2
    /\ StatusOf(1) = 404
    /\ StatusOf(2) = 500
    /\ locals.failed = <<2>>
    /\ locals.not_found = <<1>>

NoErrorLogged == ~HasErrorLine(log)
DebugLogged == \E i \in 1..Len(log) : log[i].level = "debug"

EmptyInputHandled ==
    /\ requests = <<>>
    /\ raised = "none"
    /\ result = DataFrameResult(EmptyDataFrame)
    /\ NoErrorLogged
    /\ DebugLogged

\* C3 as stated: an empty record set passed to a bulk call causes no request,
\* returns an empty result and logs a debug line and no error line.
C3_Original ==
    (Returned(BulkOps) /\ InputIsEmpty) => EmptyInputHandled

\* C3, amended: the same, on a connected client.
C3_EmptyInputOnConnectedClient ==
    (Returned(BulkOps) /\ api_connected /\ InputIsEmpty) => EmptyInputHandled

C3_Witness ==
    /\ Returned({"table_update_records"})
    /\ api_connected
    /\ InputIsEmpty
    /\ requests = <<>>
    /\ log = <<DebugLine(EMPTY_DF_LOG_MSG)>>

DefaultResult ==
    CASE op = "table_get_record_count" -> IntResult(0)
      [] op = "table_delete_record" -> BoolResult(FALSE)
      [] OTHER -> DataFrameResult(EmptyDataFrame)

\* C4: while the client is not connected, a call of a public method sends no
\* request, logs an error, does not raise and returns its default result:
\* an empty record set, 0 or false.
C4_UnconnectedCallsSendNothing ==
    (Returned(ReadOps \cup WriteOps) /\ ~api_connected) =>
        /\ requests = <<>>
        /\ HasErrorLine(log)
        /\ has_errors
        /\ raised = "none"
        /\ result = DefaultResult

C4_Witness ==
    /\ Returned({"table_delete_record"})
    /\ ~api_connected
    /\ result = BoolResult(FALSE)

\* C5 as stated: when the id column is not a column of the non-empty input,
\* table_update_records and table_delete_records send no request, log an
\* error and return an empty result without raising.
C5_Original ==
    (/\ Returned({"table_update_records", "table_delete_records"})
     /\ ~InputIsEmpty
     /\ args.id_column_name \notin Range(args.records.cols)) =>
        /\ requests = <<>>
        /\ HasErrorLine(log)
        /\ raised = "none"
        /\ result = DataFrameResult(EmptyDataFrame)

\* The request the k-th row of the input calls for.
IsRequestForRow(req, k) ==
    LET row == args.records.rows[k]
    IN  CASE op = "table_insert_records" ->
                /\ req.method = "post"
                /\ req.resource = "/ws/schema/table/" \o args.table_name
                /\ \A c \in DOMAIN row :
                      IF row[c] = Null
                      THEN c \notin DOMAIN req.data.tables[args.table_name]
                      ELSE /\ c \in DOMAIN req.data.tables[args.table_name]
                           /\ req.data.tables[args.table_name][c] = row[c]
          [] op = "table_update_records" ->
                /\ req.method = "put"
                /\ req.resource =
                       "/ws/schema/table/" \o args.table_name \o "/" \o row[args.id_column_name]
          [] op = "table_delete_records" ->
                /\ req.method = "delete"
                /\ req.resource =
                       "/ws/schema/table/" \o args.table_name \o "/" \o row[args.id_column_name]

\* C6: a bulk call sends exactly one request per input row, the k-th request
\* is the one for the k-th row whatever the statuses of the rows before it,
\* and the status and text of a row are those of the response to its own
\* request.
C6_OneRequestPerRowInOrder ==
    BulkLoopRan =>
        /\ Len(requests) = NumRows
        /\ \A k \in 1..NumRows :
              /\ IsRequestForRow(requests[k], k)
              /\ StatusOf(k) = args.responses[k].status_code
              /\ result.value.rows[k]["response_text"] = args.responses[k].body

C6_Witness ==
    /\ BulkLoopRan
    /\ op = "table_insert_records"
    /\ NumRows = 2
    /\ StatusOf(1) = 500
    /\ StatusOf(2) = 200
    /\ Len(requests) = 2

\* C7: table_update_records sends one PUT per row to the resource of the
\* row's id and no other request, also for a row whose PUT fails; the row
\* keeps the status of its PUT and its id.
C7_UpdateIsPutOnly ==
    (BulkLoopRan /\ op = "table_update_records") =>
        /\ Len(requests) = NumRows
        /\ \A i \in 1..Len(requests) : requests[i].method = "put"
        /\ \A k \in 1..NumRows :
              /\ requests[k].resource =
                     "/ws/schema/table/" \o args.table_name \o "/"
                         \o args.records.rows[k][args.id_column_name]
              /\ StatusOf(k) = args.responses[k].status_code
              /\ result.value.rows[k][args.id_column_name] =
                     args.records.rows[k][args.id_column_name]

C7_Witness ==
    /\ BulkLoopRan
    /\ op = "table_update_records"
    /\ NumRows = 2
    /\ StatusOf(1) = 404
    /\ StatusOf(2) = 500
    /\ Len(requests) = 2

\* C8 as stated: table_delete_record returns a boolean, true exactly when
\* the client is connected and the status of the response is 204 or 404.
C8_Original ==
    Returned({"table_delete_record"}) =>
        /\ result.type = "bool"
        /\ result.value <=>
               (api_connected /\ args.response.status_code \in {204, 404})

IsSorted(l) == \A i \in 1..(Len(l) - 1) : LexLeq(l[i], l[i + 1])
NoDuplicates(l) == \A i, j \in 1..Len(l) : l[i] = l[j] => i = j

\* The lists of access requests the call logged.
LoggedAccessRequests ==
    {log[i].detail : i \in {j \in 1..Len(log) : log[j].msg = "access requests"}}

\* C9 as stated: the list of directives derived from a 403 is sorted and has
\* no duplicates.
C9_Original ==
    pc = "returned" => \A l \in LoggedAccessRequests : IsSorted(l) /\ NoDuplicates(l)

WellFormedEntries == {e \in ErrorEntries : {"resource", "field"} \subseteq DOMAIN e}

\* C10: every request of a write method is flagged read_only = false and
\* every request of a read method read_only = true; the directives logged for
\* a 403 on a write carry access="FullAccess", those for a 403 on a read
\* access="ViewOnly".
C10_ReadOnlyFlagFollowsMethod ==
    Returned(ReadOps \cup WriteOps) =>
        /\ \A i \in 1..Len(requests) : requests[i].read_only <=> (op \in ReadOps)
        /\ \A l \in LoggedAccessRequests : \A i \in 1..Len(l) :
              l[i] \in {FormatAccessRequest(e, IF op \in ReadOps THEN ViewOnly ELSE FullAccess)
                          : e \in WellFormedEntries}

C10_Witness ==
    /\ Returned({"table_delete_record"})
    /\ Len(requests) = 1
    /\ ~requests[1].read_only
    /\ \E l \in LoggedAccessRequests : Len(l) = 2

\* The resource a PowerQuery request must name, given the prefix last set.
QueryResource(prefix, name) ==
    IF prefix = ""
    THEN "/ws/schema/query/" \o name \o "?pagesize=0"
    ELSE "/ws/schema/query/" \o prefix \o "." \o name \o "?pagesize=0"

\* C11: pq_set_prefix makes its argument the prefix and no other call
\* changes the prefix; pq_run(name) on a connected client sends one request,
\* to /ws/schema/query/<P>.<name>?pagesize=0 when the prefix P last set is
\* not empty and to /ws/schema/query/<name>?pagesize=0 when no prefix was set
\* or the last one set is empty.
C11_QueryNameFollowsLastPrefix ==
    /\ [](Returned({"__init__"}) => pq_prefix = "")
    /\ [](Returned({"pq_set_prefix"}) => pq_prefix = args.pq_prefix)
    /\ [][op' # "pq_set_prefix" => pq_prefix' = pq_prefix]_vars
    /\ []((Returned({"pq_run"}) /\ api_connected) =>
             /\ Len(requests) = 1
             /\ requests[1].method = "post"
             /\ requests[1].resource = QueryResource(pq_prefix, args.pq_name))

C11_Witness ==
    /\ Returned({"pq_run"})
    /\ api_connected
    /\ pq_prefix = "com.vendor.attendance"
    /\ requests[1].resource =
           "/ws/schema/query/com.vendor.attendance.daily_totals?pagesize=0"

\* A construction of a Credential has just ended.
Built == Returned({"Credential"})

\* The token exchange of the construction returned a token.
ExchangeSucceeded == args.exchange.raised = "none"

\* C12 as stated: a Credential is loaded only if the token exchange of its
\* own construction succeeded, and then its three fields are non-empty and
\* its access_token is the token that exchange returned.
C12_Original ==
    (Built /\ credential.loaded) =>
        /\ ExchangeSucceeded
        /\ Truthy(credential.fields.client_id)
        /\ Truthy(credential.fields.client_secret)
        /\ Truthy(credential.fields.access_token)
        /\ credential.fields.access_token = args.exchange.access_token

\* The positions of the events of a kind in the trace of the call.
EventsOf(name) == {i \in 1..Len(trace) : trace[i].event = name}

\* The construction got as far as the secret store, and what it found there
\* gave it neither a client_id nor a client_secret.
StoreLeftBothEmpty ==
    /\ Built
    /\ args.server_address # <<>> /\ args.plugin # "" /\ args.cred_type = "API"
    /\ LET key == <<args.server_address, args.plugin>>
       IN  \/ key \notin DOMAIN args.keyring
           \/ ~args.keyring[key].valid
           \/ \A f \in {"client_id", "client_secret"} :
                  \/ f \notin DOMAIN args.keyring[key].dict
                  \/ args.keyring[key].dict[f] \in {"", PyNone}

\* The user answered every prompt with a value.
AnsweredAtOnce ==
    /\ Len(args.id_answers) = 1 /\ args.id_answers[1] # ""
    /\ Len(args.secret_answers) = 1 /\ args.secret_answers[1] # ""

\* C13: when the secret store gives neither client_id nor client_secret and
\* the user answers each prompt with a value, there are exactly two prompts,
\* one for client_id and then one for client_secret; the pair typed is then
\* written to the secret store, and that write comes before the token
\* request, whatever the token request returns; the store holds the pair
\* when the construction ends.
C13_TwoPromptsThenStoreThenExchange ==
    (StoreLeftBothEmpty /\ AnsweredAtOnce) =>
        /\ Cardinality(EventsOf("prompt")) = 2
        /\ \E i, j \in EventsOf("prompt") :
              i < j /\ trace[i].detail = "client_id" /\ trace[j].detail = "client_secret"
        /\ Cardinality(EventsOf("fetch_token")) = 1
        /\ \E w \in EventsOf("set_password") :
              /\ \A p \in EventsOf("prompt") : p < w
              /\ \A x \in EventsOf("fetch_token") : w < x
              /\ trace[w].detail.valid
              /\ trace[w].detail.dict.client_id = args.id_answers[1]
              /\ trace[w].detail.dict.client_secret = args.secret_answers[1]
        /\ LET stored == keyring[<<args.server_address, args.plugin>>]
           IN  /\ stored.valid
               /\ stored.dict.client_id = args.id_answers[1]
               /\ stored.dict.client_secret = args.secret_answers[1]

C13_Witness ==
    /\ StoreLeftBothEmpty
    /\ AnsweredAtOnce
    /\ args.exchange.raised = "InvalidClientError"
    /\ ~credential.loaded
    /\ Cardinality(EventsOf("prompt")) = 2
    /\ keyring[<<args.server_address, args.plugin>>].dict.client_secret = "secret-1"

\* The construction was given a server address and a plugin name and is of
\* the API type: it got past the checks of __init__ and of
\* _initialize_api_credentials.
PassedChecks ==
    Built /\ args.server_address # <<>> /\ args.plugin # "" /\ args.cred_type = "API"

\* The server address is normalised exactly once in the call, before the
\* secret store is read or written, before any prompt and before a field
\* is set; normalising the result again, or any address twice, changes
\* nothing.
NormalisedOnceAndFirst ==
    /\ Cardinality(EventsOf("server_address")) = 1
    /\ \A n \in EventsOf("server_address") :
          \A i \in 1..Len(trace) : i # n => n < i
    /\ credential.server_address = normalize(args.server_address)
    /\ normalize(credential.server_address) = credential.server_address
    /\ \A a \in Addresses : normalize(normalize(a)) = normalize(a)

\* C14 as stated: every construction of a Credential normalises the server
\* address exactly once and first, and normalisation is idempotent.
C14_Original == Built => NormalisedOnceAndFirst

\* C14, amended: every construction of an API credential that is given a
\* server address and a plugin name normalises the server address exactly
\* once, before the secret store is read and before any field is set, and
\* normalisation is idempotent.
C14_NormalisedOnceWhenChecksPass == PassedChecks => NormalisedOnceAndFirst

C14_Witness ==
    /\ PassedChecks
    /\ args.server_address = SchemeHttp \o HostName \o <<"/">>
    /\ credential.server_address = SchemeHttps \o HostName
    /\ Cardinality(EventsOf("get_password")) = 1

\* C15 as stated: when an API object is discarded, connected or not, its
\* session is closed exactly once and __del__ raises nothing.
C15_Original ==
    Returned({"__del__"}) =>
        /\ raised = "none"
        /\ session = "closed"
        /\ Cardinality(EventsOf("session.close")) = 1

\* A PowerQuery or a table listing on a connected client was answered with
\* a 200 whose JSON body has no record: no "record" key, or an empty list.
DecodedZeroRecords ==
    /\ Returned({"pq_run", "table_get_records"})
    /\ api_connected
    /\ args.response.status_code = 200
    /\ args.response.body.is_json
    /\ \/ "record" \notin DOMAIN args.response.body.json
       \/ args.response.body.json["record"] = <<>>

\* C16 as stated: decoding a 200 payload with zero records, the record
\* list missing or empty, gives an empty record set and a debug-level
\* 'no records' line, logs no error and raises nothing.
C16_Original ==
    DecodedZeroRecords =>
        /\ raised = "none"
        /\ result = DataFrameResult(EmptyDataFrame)
        /\ \E i \in 1..Len(log) : log[i] = DebugLine(NO_RECORDS_LOG_MSG)
        /\ ~HasErrorLine(log)

\* The columns of row k of the input whose value is present.
PresentColumns(k) ==
    {c \in Range(args.records.cols) : args.records.rows[k][c] # Null}

\* The payload the claim describes for row k: the present columns (without
\* the id column for an update) and their values, under "tables" and the
\* name of the table.
ExpectedPayload(k) ==
    LET kept == IF op = "table_update_records"
                THEN PresentColumns(k) \ {args.id_column_name}
                ELSE PresentColumns(k)
    IN  [tables |-> [t \in {args.table_name} |-> [c \in kept |-> args.records.rows[k][c]]]]

\* C17 as stated: the payload sent for a row, by insert and by update
\* alike, holds exactly the columns of the row whose value is not null (an
\* empty string is kept), without the id column for an update.
C17_Original ==
    (BulkLoopRan /\ op \in {"table_insert_records", "table_update_records"}) =>
        \A k \in 1..NumRows : requests[k].data = ExpectedPayload(k)

\* table_get_record has read back an inserted row.
ReadBack == Returned({"table_get_record"}) /\ "inserted" \in DOMAIN args

C19_Original ==
    BulkLoopRan =>
        /\ raised = "none"
        /\ result.value.cols = args.records.cols \o StatusColumns
        /\ Len(result.value.rows) = NumRows
        /\ \A k \in 1..NumRows : \A c \in Range(args.records.cols) :
              result.value.rows[k][c] = args.records.rows[k][c]

\* The rows of the batch that were answered 403, and the first of them.
ForbiddenRows == {k \in 1..NumRows : args.responses[k].status_code = 403}
FirstForbiddenRow == CHOOSE k \in ForbiddenRows : \A j \in ForbiddenRows : k <= j

\* The lines of the call that list access-request directives.
AccessRequestLines == {j \in 1..Len(log) : log[j].msg = "access requests"}

\* C20 as stated: in a batch with a row answered 403 (the first such row
\* with a body that names fields), the directives are logged exactly once,
\* wherever in the batch that row is, and every row after it is sent with
\* suppress_log = true.
C20_Original ==
    (BulkLoopRan /\ ForbiddenRows # {} /\ args.responses[FirstForbiddenRow] = TwoFieldsForbidden) =>
        /\ Cardinality(AccessRequestLines) = 1
        /\ \A k \in 1..NumRows : k > FirstForbiddenRow => requests[k].suppress_log

\* The aggregate error lines of the three bulk methods.
AggregateErrorLines ==
    {ErrorLine("Errors inserting records"), ErrorLine("Errors updating records"),
     ErrorLine("Errors deleting records")}

AggregateLogged == \E i \in 1..Len(log) : log[i] \in AggregateErrorLines

\* C21: after the loop of a bulk call access_requests_needed is true exactly
\* when a row was answered 403, and when it is true no aggregate 'Errors
\* inserting/updating/deleting records' line is logged, whatever the other
\* rows were answered.
C21_FlagIffForbiddenAndSuppressesAggregate ==
    BulkLoopRan =>
        /\ locals.access_requests_needed <=> (ForbiddenRows # {})
        /\ locals.access_requests_needed => ~AggregateLogged

C21_Witness ==
    /\ BulkLoopRan
    /\ NumRows = 2
    /\ args.responses[1].status_code = 500
    /\ args.responses[2].status_code = 403
    /\ locals.access_requests_needed
    /\ ~AggregateLogged

\* A single request of a connected client was answered 403 with a body from
\* which the directives cannot be extracted: not JSON, no "errors", or an
\* entry without "resource" or "field".
ExtractionFails ==
    /\ Returned({"pq_run", "table_delete_record"})
    /\ api_connected
    /\ args.response.status_code = 403
    /\ \/ ~args.response.body.is_json
       \/ "errors" \notin DOMAIN args.response.body.json
       \/ \E i \in 1..Len(args.response.body.json["errors"]) :
              ~({"resource", "field"} \subseteq DOMAIN args.response.body.json["errors"][i])

\* C22 as stated: when the extraction of the directives from a 403 body
\* fails, the failure is logged, nothing is raised and the list of
\* directives is empty, so that no directive is reported.
C22_Original ==
    ExtractionFails =>
        /\ raised = "none"
        /\ \E i \in 1..Len(log) : log[i] = ErrorLine("Error parsing access requests")
        /\ AccessRequestLines = {}

\* A delete on a connected client all of whose targets were deleted or were
\* already absent.
DeleteFoundNothingWrong ==
    \/ /\ Returned({"table_delete_record"})
       /\ api_connected
       /\ args.response.status_code = 404
    \/ /\ BulkLoopRan
       /\ op = "table_delete_records"
       /\ \A k \in 1..NumRows : args.responses[k].status_code \in {204, 404}

\* C23 as stated: a delete whose targets are deleted (204) or already
\* absent (404) logs no error-level line, wherever the 404 rows are in the
\* batch.
C23_Original == DeleteFoundNothingWrong => ~HasErrorLine(log)

\* The '<table>.<field>' pairs of the tables object of a record, with their
\* values, in the order of the payload.
RECURSIVE QualifiedPairs(_)
QualifiedPairs(tables) ==
    IF tables = <<>> THEN <<>>
    ELSE [i \in 1..Len(Head(tables)[2]) |->
             <<Head(tables)[1] \o "." \o Head(tables)[2][i][1], Head(tables)[2][i][2]>>]
         \o QualifiedPairs(Tail(tables))

\* The names of the pairs of all the records, each once, in the order in
\* which they are first seen.
RECURSIVE FirstSeenNames(_, _)
FirstSeenNames(record_list, seen) ==
    IF record_list = <<>> THEN seen
    ELSE LET names == Keys(QualifiedPairs(Get(Head(record_list), "tables")))
         IN  FirstSeenNames(Tail(record_list),
                            seen \o SelectSeq(names, LAMBDA n : n \notin Range(seen)))

\* pq_run on a connected client was answered 200 with records that all
\* have a tables object.
DecodedNestedTables ==
    /\ Returned({"pq_run"})
    /\ api_connected
    /\ args.response.status_code = 200
    /\ args.response.body.is_json
    /\ "record" \in DOMAIN args.response.body.json
    /\ args.response.body.json["record"] # <<>>
    /\ \A i \in 1..Len(args.response.body.json["record"]) :
          HasKey(args.response.body.json["record"][i], "tables")

\* C24 as stated: decoding a PowerQuery payload with nested tables raises
\* nothing and gives one row per record, in the order of the payload; the
\* columns are the '<table>.<field>' pairs of all the records in first-seen
\* order, and a row has the values of its record and nulls elsewhere.
C24_Original ==
    DecodedNestedTables =>
        LET record_list == args.response.body.json["record"]
        IN  /\ raised = "none"
            /\ result.type = "DataFrame"
            /\ Len(result.value.rows) = Len(record_list)
            /\ result.value.cols = FirstSeenNames(record_list, <<>>)
            /\ \A i \in 1..Len(record_list) :
                  LET pairs == QualifiedPairs(Get(record_list[i], "tables"))
                  IN  \A c \in Range(result.value.cols) :
                          result.value.rows[i][c] =
                              IF HasKey(pairs, c) THEN Get(pairs, c) ELSE Null

\* C25 as stated: table_get_record_count on a connected client raises
\* nothing; answered with a status other than 200, whatever the body, it
\* logs an error and returns 0; answered 200 it returns the count of the
\* body, or 0 when the body has none.
C25_Original ==
    (Returned({"table_get_record_count"}) /\ api_connected) =>
        IF args.response.status_code # 200
        THEN /\ raised = "none"
             /\ HasErrorLine(log)
             /\ result = IntResult(0)
        ELSE args.response.body.is_json =>
                 /\ raised = "none"
                 /\ result = IF "count" \in DOMAIN args.response.body.json
                              THEN IntResult(args.response.body.json["count"])
                              ELSE IntResult(0)

\* The arguments of a construction of a Credential lack the server address
\* or the plugin name.
LacksAddressOrPlugin(a) == a.server_address = <<>> \/ a.plugin = ""

\* C26 as stated: a Credential constructed without a server address or
\* without a plugin name touches neither the secret store nor the terminal
\* nor the token endpoint and is not loaded; an API client constructed on it
\* logs an error and is unconnected, and its construction raises nothing.
C26_Original ==
    /\ (Built /\ LacksAddressOrPlugin(args)) =>
           /\ trace = <<>>
           /\ keyring = args.keyring
           /\ ~credential.loaded
    /\ (Returned({"__init__"}) /\ LacksAddressOrPlugin(args.credential_args)) =>
           /\ raised = "none"
           /\ ~api_connected
           /\ HasErrorLine(log)

\* The legacy update sent requests: the client was connected, the records
\* were not empty and had the id column.
HelperLoopRan ==
    /\ Returned({"update_table_records"})
    /\ api_connected
    /\ ~InputIsEmpty
    /\ args.id_column_name \in Range(args.records.cols)

\* The methods of the requests sent for the row at position k, in the order
\* they were sent.
HelperMethodsFor(k) ==
    LET sent == SelectSeq(requests, LAMBDA r : r.row = k)
    IN  [i \in 1..Len(sent) |-> sent[i].method]

HelperDeleteAccepted(k) == args.answers[k].delete.status_code \in {204, 404}

\* The status the fallback left on the row at position k.
HelperFallbackStatuses(k) ==
    {r.row["response_status_code"] : r \in {x \in Range(locals.results) : x.position = k}}

\* C27: in the legacy Helper.update_table_records every row gets one PUT; a
\* row whose PUT returned 200 gets nothing more; a row whose PUT failed gets
\* exactly one DELETE, then exactly one POST if and only if the DELETE
\* returned 204 or 404, and otherwise keeps the DELETE's status; no row gets a
\* further request.
C27_OneFallbackAttemptPerFailedRow ==
    HelperLoopRan =>
        /\ \A k \in 1..NumRows :
               /\ HelperMethodsFor(k) =
                      IF args.answers[k].put.status_code = 200 THEN <<"put">>
                      ELSE IF HelperDeleteAccepted(k) THEN <<"put", "delete", "post">>
                      ELSE <<"put", "delete">>
               /\ (args.answers[k].put.status_code # 200 /\ ~HelperDeleteAccepted(k)) =>
                      HelperFallbackStatuses(k) = {args.answers[k].delete.status_code}
        /\ \A i \in 1..Len(requests) : requests[i].row \in 1..NumRows

\* Two rows whose PUT failed: the DELETE of one was accepted and its POST
\* sent, the DELETE of the other was refused.
C27_Witness ==
    /\ HelperLoopRan
    /\ \E j, k \in 1..NumRows :
           /\ args.answers[j].put.status_code # 200
           /\ args.answers[k].put.status_code # 200
           /\ HelperDeleteAccepted(j)
           /\ ~HelperDeleteAccepted(k)
           /\ HelperMethodsFor(j) = <<"put", "delete", "post">>
           /\ HelperMethodsFor(k) = <<"put", "delete">>

\* The rows of a bulk call that failed: insert and update, a status other
\* than 200; delete, a status other than 204 and 404.
FailedRowsOfBulk ==
    {k \in 1..NumRows :
        IF op = "table_delete_records" THEN StatusOf(k) \notin {204, 404}
        ELSE StatusOf(k) # 200}

\* C28 as stated: a bulk insert, update or delete on a connected client that
\* ends with a failed row has logged an error-level line, wherever the failed
\* rows are in the batch and whatever the statuses are.
C28_Original ==
    (BulkLoopRan /\ raised = "none" /\ FailedRowsOfBulk # {}) => HasErrorLine(log)

\* The construction got as far as the secret store.
BuiltThroughStore ==
    Built /\ ReachesStore(args.server_address, args.plugin, args.cred_type)

\* The addresses that normalise to the address the Credential was built for.
SameServer == {a \in Addresses \ {<<>>} : normalize(a) = normalize(args.server_address)}

\* C29 as stated: the entry of the secret store a Credential reads and writes
\* is determined by the normalised server address and the plugin, so what a
\* construction saved is found by a construction for the same plugin through
\* any address that normalises to the same address.
C29_Original ==
    BuiltThroughStore =>
        \A a \in SameServer :
            LET found == Lookup(keyring, KeyringKey(a, args.plugin), ApiFields).fields
            IN  /\ found.client_id = credential.fields.client_id
                /\ found.client_secret = credential.fields.client_secret

\* The call of send_error_report handed an email to the mail server.
EmailSent == \E i \in 1..Len(trace) : trace[i].event = "send_message"

\* has_errors was true when send_error_report was called and the SMTP server,
\* the sender address and the recipients are configured.
ReportConditions ==
    /\ args.has_errors
    /\ email_config.smtp_server # ""
    /\ email_config.sender_address # ""
    /\ email_config.recipients # ""

\* C30: has_errors is false on a new Log, true after any call of error,
\* critical or exception, and no operation takes it from true to false;
\* send_error_report sends an email only if has_errors was true and the
\* SMTP server, the sender address and the recipients are all non-empty, and
\* sends nothing otherwise.
C30_HasErrorsLatchesAndGatesReport ==
    /\ [](Returned({"Log"}) => ~has_errors)
    /\ [](Returned({"error", "critical", "exception"}) => has_errors)
    /\ [][has_errors => has_errors']_vars
    /\ [](Returned({"send_error_report"}) => (EmailSent => ReportConditions))

\* An error report was sent, without a sender name, by a Log whose flag had
\* been set, and the flag is still set.
C30_Witness ==
    /\ Returned({"send_error_report"})
    /\ EmailSent
    /\ ReportConditions
    /\ email_config.sender_name = ""
    /\ has_errors

====
